---- MODULE Spec2Model ----
(***************************************************************************)
(* ConnectionHandlerSelect (swarm/src/handler/select.rs): the binary       *)
(* combinator that composes two connection handlers, proto1 and proto2.    *)
(*                                                                         *)
(* The composed handler owns nothing but its two inner handlers.  The      *)
(* inner handlers are type parameters of the combinator, so what they      *)
(* return from poll, connection_keep_alive, ... is an input of the call,   *)
(* drawn from a small set; what the combinator hands to them is recorded   *)
(* in their inbox (the events delivered by the call in progress).          *)
(***************************************************************************)
EXTENDS Integers, Sequences, FiniteSets, TLC

VARIABLES
    proto1,      \* the first inner handler: [id, inbox]
    proto2,      \* the second inner handler: [id, inbox]
    call,        \* the last call made on the composed handler, with its arguments
    ret,         \* what that call returned
    polled1,     \* what proto1.poll returned in that call (NotPolled outside poll)
    polled2,     \* what proto2.poll returned in that call
    panicked,    \* a panic!() of the composed handler was reached
    inflight,    \* the runtime's outbound substream requests not yet resolved
    answered,    \* the in-flight request the last call resolved, if any
    reservations,  \* the relay's reservation table
    circuits,      \* the relay's circuit table
    ex,            \* the hop exchanges of the relay, by request
    connected,     \* the peers the relay has a connection with
    notified,    \* the inner handlers the last call called, in the order of the calls
    queue1,      \* the events proto1 has ready and has not yet returned from poll
    queue2,      \* the same for proto2
    issued,      \* the RequestIds issued so far, each with the random value drawn
    nfields,     \* the number of fields of the struct NetworkBehaviour is derived for
    field_tys,   \* the types of the fields, in the order of their declaration
    user_provided_out_event,  \* the struct has #[behaviour(out_event = "...")]
    swarm_call,  \* the last call made on the derived behaviour, with its arguments
    swarm_ret,   \* what that call returned
    field_calls  \* the calls that call made on the fields of the struct, in order

handlerVars ==
    <<proto1, proto2, call, ret, polled1, polled2, panicked, inflight, answered,
      notified>>
relayVars == <<reservations, circuits, ex, connected>>
queueVars == <<queue1, queue2>>
idVars == <<issued>>
structVars == <<nfields, field_tys, user_provided_out_event>>
deriveVars == <<structVars, swarm_call, swarm_ret, field_calls>>
\* what no method of the handler touches, and what nothing of the relay touches
otherVars == <<relayVars, idVars, deriveVars>>
nonRelayVars == <<handlerVars, queueVars, idVars, deriveVars>>
vars == <<handlerVars, relayVars, queueVars, idVars, deriveVars>>

----------------------------------------------------------------------------
(* Bounds of the model. *)

\* Substream timeouts range over 1..MaxTimeout.
MaxTimeout == 2
\* KeepAlive::Until instants range over 1..MaxInstant.
MaxInstant == 2
\* The runtime holds at most MaxInflight unresolved outbound requests.
MaxInflight == 2
\* The relay sees at most MaxExchanges hop requests.
MaxExchanges == 2
\* Limits of the relay: circuits per peer, bytes and duration of one circuit.
MaxCircuitsPerPeer == 1
MaxCircuitBytes == 1
MaxCircuitDuration == 1
\* RequestId::new is called at most MaxRequests times; rand::random() ranges
\* over 0..MaxRandom in place of the u64 range.
MaxRequests == 4
MaxRandom == 2
\* An inner handler has at most MaxQueue events ready.
MaxQueue == 2
\* NetworkBehaviour is derived for structs of 1..MaxFields named fields.
MaxFields == 3

----------------------------------------------------------------------------
(* Values.  Payloads stand for the values of the generic type parameters   *)
(* (protocol outputs, open infos, events, errors): opaque to the           *)
(* combinator, which can only move them.                                   *)

Payloads == {"a", "b"}
Timeouts == 1..MaxTimeout
Instants == 1..MaxInstant

\* libp2p_core::either::EitherOutput
First(v) == [tag |-> "First", val |-> v]
Second(v) == [tag |-> "Second", val |-> v]
EitherOutputs == {First(v) : v \in Payloads} \cup {Second(v) : v \in Payloads}

\* libp2p_core::either::EitherError and libp2p_core::upgrade::EitherUpgrade
EitherA(v) == [tag |-> "A", val |-> v]
EitherB(v) == [tag |-> "B", val |-> v]
EitherErrors == {EitherA(v) : v \in Payloads} \cup {EitherB(v) : v \in Payloads}

\* std::io::Error: its kind, and the detail (message, source, OS code) an error
\* built from a kind alone does not have.
IoKinds == {"UnexpectedEof", "ConnectionReset"}
IoDetails == {"none", "detail"}
IoErrors == [kind : IoKinds, detail : IoDetails]
\* e.kind().into(): io::Error from the ErrorKind of e
IoErrorFromKind(e) == [kind |-> e.kind, detail |-> "none"]

\* libp2p_core::upgrade::ProtocolError
PeIoError(e) == [pe |-> "IoError", io |-> e]
PeInvalidMessage == [pe |-> "InvalidMessage"]
PeInvalidProtocol == [pe |-> "InvalidProtocol"]
PeTooManyProtocols == [pe |-> "TooManyProtocols"]
ProtocolErrors ==
    {PeIoError(e) : e \in IoErrors}
        \cup {PeInvalidMessage, PeInvalidProtocol, PeTooManyProtocols}

\* libp2p_core::upgrade::NegotiationError
NegFailed == [neg |-> "Failed"]
NegProtocolError(e) == [neg |-> "ProtocolError", perr |-> e]
NegotiationErrors == {NegFailed} \cup {NegProtocolError(e) : e \in ProtocolErrors}

\* ConnectionHandlerUpgrErr<E>, with Upgrade(UpgradeError::Select | Apply)
Timer == [err |-> "Timer"]
Timeout == [err |-> "Timeout"]
UpgradeSelect(n) == [err |-> "Select", neg |-> n]
UpgradeApply(e) == [err |-> "Apply", inner |-> e]
\* the errors before negotiation commits: they carry no protocol error
PreNegotiationErrs == {Timer, Timeout} \cup {UpgradeSelect(n) : n \in NegotiationErrors}
\* the error type of the composed handler: E = EitherError<E1, E2>
ComposedUpgrErrs == PreNegotiationErrs \cup {UpgradeApply(e) : e \in EitherErrors}

\* ConnectionEvent of the composed handler
FullyNegotiatedInbound(p, i) ==
    [kind |-> "FullyNegotiatedInbound", protocol |-> p, info |-> i]
FullyNegotiatedOutbound(p, i) ==
    [kind |-> "FullyNegotiatedOutbound", protocol |-> p, info |-> i]
AddressChange(a) == [kind |-> "AddressChange", new_address |-> a]
DialUpgradeError(i, e) == [kind |-> "DialUpgradeError", info |-> i, error |-> e]
ListenUpgradeError(i, e) == [kind |-> "ListenUpgradeError", info |-> i, error |-> e]

\* InboundOpenInfo = (TProto1::InboundOpenInfo, TProto2::InboundOpenInfo)
InboundOpenInfos == Payloads \X Payloads

ConnectionEvents ==
    {FullyNegotiatedInbound(p, i) : p \in EitherOutputs, i \in InboundOpenInfos}
        \cup {FullyNegotiatedOutbound(p, i) : p \in EitherOutputs, i \in EitherOutputs}
        \cup {AddressChange(a) : a \in Payloads}
        \cup {DialUpgradeError(i, e) : i \in EitherOutputs, e \in ComposedUpgrErrs}
        \cup {ListenUpgradeError(i, e) : i \in InboundOpenInfos, e \in ComposedUpgrErrs}

\* Poll<ConnectionHandlerEvent<..>>
Pending == [kind |-> "Pending"]
NotPolled == [kind |-> "NotPolled"]
Custom(e) == [kind |-> "Custom", event |-> e]
Close(e) == [kind |-> "Close", error |-> e]
SubstreamProtocol(u, i, t) == [upgrade |-> u, info |-> i, timeout |-> t]
OutboundSubstreamRequest(p) == [kind |-> "OutboundSubstreamRequest", protocol |-> p]

\* what an inner handler's poll can return
InnerPollResults ==
    {Pending}
        \cup {Custom(e) : e \in Payloads}
        \cup {Close(e) : e \in Payloads}
        \cup {OutboundSubstreamRequest(SubstreamProtocol(u, i, t)) :
                u \in Payloads, i \in Payloads, t \in Timeouts}

\* handler::KeepAlive
KeepAliveNo == [ka |-> "No", until |-> 0]
KeepAliveYes == [ka |-> "Yes", until |-> 0]
KeepAliveUntil(t) == [ka |-> "Until", until |-> t]
KeepAlives == {KeepAliveNo, KeepAliveYes} \cup {KeepAliveUntil(t) : t \in Instants}

\* An inbound upgrade is known by the protocol names it offers, in order.
InboundUpgrades == {<<"/x">>, <<"/y">>, <<"/x", "/y">>}
\* what an inner handler's listen_protocol can return
InnerListenProtocols ==
    {SubstreamProtocol(u, i, t) : u \in InboundUpgrades, i \in Payloads, t \in Timeouts}
\* libp2p_core::upgrade::SelectUpgrade::new(a, b)
SelectUpgrade(a, b) == [first |-> a, second |-> b]

Unit == [kind |-> "Unit"]
NoRequest == [issuer |-> 0]

----------------------------------------------------------------------------
(* The handlers of ConnectionHandlerSelect.  Each returns its effect: the  *)
(* events it hands to proto1 (d1) and to proto2 (d2), in order, and        *)
(* whether it panics.                                                      *)

\* the calls of an arm made in the other order: proto2's before proto1's
Effect_proto2_first(d1, d2) ==
    [d1 |-> d1, d2 |-> d2, panic |-> FALSE,
     order |-> (IF d2 # <<>> THEN <<2>> ELSE <<>>) \o (IF d1 # <<>> THEN <<1>> ELSE <<>>)]

\* the calls of an arm: where an arm calls both inner handlers, self.proto1 is
\* called before self.proto2
Effect(d1, d2) ==
    [d1 |-> d1, d2 |-> d2, panic |-> FALSE,
     order |-> (IF d1 # <<>> THEN <<1>> ELSE <<>>) \o (IF d2 # <<>> THEN <<2>> ELSE <<>>)]
Panic == [d1 |-> <<>>, d2 |-> <<>>, panic |-> TRUE, order |-> <<>>]

\* on_fully_negotiated_outbound with the Second arm handing its event to proto1
on_fully_negotiated_outbound_first_only(ev) ==
    CASE ev.protocol.tag = "First" /\ ev.info.tag = "First" ->
            Effect(<<FullyNegotiatedOutbound(ev.protocol.val, ev.info.val)>>, <<>>)
      [] ev.protocol.tag = "Second" /\ ev.info.tag = "Second" ->
            Effect(<<FullyNegotiatedOutbound(ev.protocol.val, ev.info.val)>>, <<>>)
      [] OTHER -> Panic

\* on_fully_negotiated_outbound trusting the tag of the info where the tags differ
on_fully_negotiated_outbound_lenient(ev) ==
    CASE ev.info.tag = "First" ->
            Effect(<<FullyNegotiatedOutbound(ev.protocol.val, ev.info.val)>>, <<>>)
      [] ev.info.tag = "Second" ->
            Effect(<<>>, <<FullyNegotiatedOutbound(ev.protocol.val, ev.info.val)>>)

on_fully_negotiated_outbound(ev) ==
    CASE ev.protocol.tag = "First" /\ ev.info.tag = "First" ->
            Effect(<<FullyNegotiatedOutbound(ev.protocol.val, ev.info.val)>>, <<>>)
      [] ev.protocol.tag = "Second" /\ ev.info.tag = "Second" ->
            Effect(<<>>, <<FullyNegotiatedOutbound(ev.protocol.val, ev.info.val)>>)
      [] ev.protocol.tag = "First" /\ ev.info.tag = "Second" -> Panic
      [] ev.protocol.tag = "Second" /\ ev.info.tag = "First" -> Panic

\* on_fully_negotiated_inbound with the two infos of the pair taken in the wrong order
on_fully_negotiated_inbound_swapped_info(ev) ==
    CASE ev.protocol.tag = "First" ->
            Effect(<<FullyNegotiatedInbound(ev.protocol.val, ev.info[2])>>, <<>>)
      [] ev.protocol.tag = "Second" ->
            Effect(<<>>, <<FullyNegotiatedInbound(ev.protocol.val, ev.info[1])>>)

on_fully_negotiated_inbound(ev) ==
    CASE ev.protocol.tag = "First" ->
            Effect(<<FullyNegotiatedInbound(ev.protocol.val, ev.info[1])>>, <<>>)
      [] ev.protocol.tag = "Second" ->
            Effect(<<>>, <<FullyNegotiatedInbound(ev.protocol.val, ev.info[2])>>)

\* DialUpgradeError::transpose: Either::Left, Either::Right or a panic
transpose(ev) ==
    CASE ev.info.tag = "First" /\ ev.error.err = "Timer" ->
            [side |-> "Left", err |-> DialUpgradeError(ev.info.val, Timer)]
      [] ev.info.tag = "First" /\ ev.error.err = "Timeout" ->
            [side |-> "Left", err |-> DialUpgradeError(ev.info.val, Timeout)]
      [] ev.info.tag = "First" /\ ev.error.err = "Select" ->
            [side |-> "Left",
             err |-> DialUpgradeError(ev.info.val, UpgradeSelect(ev.error.neg))]
      [] ev.info.tag = "First" /\ ev.error.err = "Apply" /\ ev.error.inner.tag = "A" ->
            [side |-> "Left",
             err |-> DialUpgradeError(ev.info.val, UpgradeApply(ev.error.inner.val))]
      [] ev.info.tag = "Second" /\ ev.error.err = "Timer" ->
            [side |-> "Right", err |-> DialUpgradeError(ev.info.val, Timer)]
      [] ev.info.tag = "Second" /\ ev.error.err = "Timeout" ->
            [side |-> "Right", err |-> DialUpgradeError(ev.info.val, Timeout)]
      [] ev.info.tag = "Second" /\ ev.error.err = "Select" ->
            [side |-> "Right",
             err |-> DialUpgradeError(ev.info.val, UpgradeSelect(ev.error.neg))]
      [] ev.info.tag = "Second" /\ ev.error.err = "Apply" /\ ev.error.inner.tag = "B" ->
            [side |-> "Right",
             err |-> DialUpgradeError(ev.info.val, UpgradeApply(ev.error.inner.val))]
      [] OTHER -> [side |-> "Panic"]

\* on_dial_upgrade_error dropping a mismatched error instead of panicking
on_dial_upgrade_error_lenient(ev) ==
    LET t == transpose(ev) IN
    CASE t.side = "Left" -> Effect(<<t.err>>, <<>>)
      [] t.side = "Right" -> Effect(<<>>, <<t.err>>)
      [] t.side = "Panic" -> Effect(<<>>, <<>>)

\* on_dial_upgrade_error telling both inner handlers of an error before negotiation
on_dial_upgrade_error_fan_out(ev) ==
    LET t == transpose(ev) IN
    CASE t.side = "Panic" -> Panic
      [] t.side # "Panic" /\ t.err.error.err # "Apply" -> Effect(<<t.err>>, <<t.err>>)
      [] t.side = "Left" /\ t.err.error.err = "Apply" -> Effect(<<t.err>>, <<>>)
      [] t.side = "Right" /\ t.err.error.err = "Apply" -> Effect(<<>>, <<t.err>>)

on_dial_upgrade_error(ev) ==
    LET t == transpose(ev) IN
    CASE t.side = "Left" -> Effect(<<t.err>>, <<>>)
      [] t.side = "Right" -> Effect(<<>>, <<t.err>>)
      [] t.side = "Panic" -> Panic

\* the pair (e1, e2) with the original io::Error in e1 and the rebuilt one in e2
SplitProtocolError_original_first(e) ==
    CASE e.pe = "IoError" ->
            <<NegProtocolError(PeIoError(e.io)),
              NegProtocolError(PeIoError(IoErrorFromKind(e.io)))>>
      [] e.pe = "InvalidMessage" ->
            <<NegProtocolError(PeInvalidMessage), NegProtocolError(PeInvalidMessage)>>
      [] e.pe = "InvalidProtocol" ->
            <<NegProtocolError(PeInvalidProtocol), NegProtocolError(PeInvalidProtocol)>>
      [] e.pe = "TooManyProtocols" ->
            <<NegProtocolError(PeTooManyProtocols), NegProtocolError(PeTooManyProtocols)>>

\* the pair (e1, e2) built from a NegotiationError::ProtocolError(e)
SplitProtocolError(e) ==
    CASE e.pe = "IoError" ->
            <<NegProtocolError(PeIoError(IoErrorFromKind(e.io))),
              NegProtocolError(PeIoError(e.io))>>
      [] e.pe = "InvalidMessage" ->
            <<NegProtocolError(PeInvalidMessage), NegProtocolError(PeInvalidMessage)>>
      [] e.pe = "InvalidProtocol" ->
            <<NegProtocolError(PeInvalidProtocol), NegProtocolError(PeInvalidProtocol)>>
      [] e.pe = "TooManyProtocols" ->
            <<NegProtocolError(PeTooManyProtocols), NegProtocolError(PeTooManyProtocols)>>

\* on_listen_upgrade_error telling both inner handlers of every error
on_listen_upgrade_error_fan_out(ev) ==
    LET e == IF ev.error.err = "Apply" THEN UpgradeApply(ev.error.inner.val) ELSE ev.error
    IN  Effect(<<ListenUpgradeError(ev.info[1], e)>>, <<ListenUpgradeError(ev.info[2], e)>>)

\* on_listen_upgrade_error telling proto2 of a Timer where a Timeout happened
on_listen_upgrade_error_timer_for_timeout(ev) ==
    LET i1 == ev.info[1]
        i2 == ev.info[2]
        error == ev.error
    IN
    CASE error.err = "Timer" ->
            Effect(<<ListenUpgradeError(i1, Timer)>>, <<ListenUpgradeError(i2, Timer)>>)
      [] error.err = "Timeout" ->
            Effect(<<ListenUpgradeError(i1, Timeout)>>, <<ListenUpgradeError(i2, Timer)>>)
      [] error.err = "Select" /\ error.neg.neg = "Failed" ->
            Effect(<<ListenUpgradeError(i1, UpgradeSelect(NegFailed))>>,
                   <<ListenUpgradeError(i2, UpgradeSelect(NegFailed))>>)
      [] error.err = "Select" /\ error.neg.neg = "ProtocolError" ->
            LET e == SplitProtocolError(error.neg.perr) IN
            Effect(<<ListenUpgradeError(i1, UpgradeSelect(e[1]))>>,
                   <<ListenUpgradeError(i2, UpgradeSelect(e[2]))>>)
      [] error.err = "Apply" /\ error.inner.tag = "A" ->
            Effect(<<ListenUpgradeError(i1, UpgradeApply(error.inner.val))>>, <<>>)
      [] error.err = "Apply" /\ error.inner.tag = "B" ->
            Effect(<<>>, <<ListenUpgradeError(i2, UpgradeApply(error.inner.val))>>)

on_listen_upgrade_error(ev) ==
    LET i1 == ev.info[1]
        i2 == ev.info[2]
        error == ev.error
    IN
    CASE error.err = "Timer" ->
            Effect(<<ListenUpgradeError(i1, Timer)>>, <<ListenUpgradeError(i2, Timer)>>)
      [] error.err = "Timeout" ->
            Effect(<<ListenUpgradeError(i1, Timeout)>>,
                   <<ListenUpgradeError(i2, Timeout)>>)
      [] error.err = "Select" /\ error.neg.neg = "Failed" ->
            Effect(<<ListenUpgradeError(i1, UpgradeSelect(NegFailed))>>,
                   <<ListenUpgradeError(i2, UpgradeSelect(NegFailed))>>)
      [] error.err = "Select" /\ error.neg.neg = "ProtocolError" ->
            LET e == SplitProtocolError(error.neg.perr) IN
            Effect(<<ListenUpgradeError(i1, UpgradeSelect(e[1]))>>,
                   <<ListenUpgradeError(i2, UpgradeSelect(e[2]))>>)
      [] error.err = "Apply" /\ error.inner.tag = "A" ->
            Effect(<<ListenUpgradeError(i1, UpgradeApply(error.inner.val))>>, <<>>)
      [] error.err = "Apply" /\ error.inner.tag = "B" ->
            Effect(<<>>, <<ListenUpgradeError(i2, UpgradeApply(error.inner.val))>>)

\* the AddressChange arm without its second half
on_address_change_first_only(ev) ==
    Effect(<<AddressChange(ev.new_address)>>, <<>>)

on_address_change(ev) ==
    Effect(<<AddressChange(ev.new_address)>>, <<AddressChange(ev.new_address)>>)

on_connection_event(ev) ==
    CASE ev.kind = "FullyNegotiatedOutbound" -> on_fully_negotiated_outbound(ev)
      [] ev.kind = "FullyNegotiatedInbound" -> on_fully_negotiated_inbound(ev)
      [] ev.kind = "AddressChange" -> on_address_change(ev)
      [] ev.kind = "DialUpgradeError" -> on_dial_upgrade_error(ev)
      [] ev.kind = "ListenUpgradeError" -> on_listen_upgrade_error(ev)

\* on_behaviour_event: InEvent = EitherOutput<TProto1::InEvent, TProto2::InEvent>
BehaviourEvent(e) == [kind |-> "BehaviourEvent", event |-> e]
\* on_behaviour_event with the two arms calling the other inner handler
on_behaviour_event_swapped(event) ==
    CASE event.tag = "First" -> Effect(<<>>, <<BehaviourEvent(event.val)>>)
      [] event.tag = "Second" -> Effect(<<BehaviourEvent(event.val)>>, <<>>)

on_behaviour_event(event) ==
    CASE event.tag = "First" -> Effect(<<BehaviourEvent(event.val)>>, <<>>)
      [] event.tag = "Second" -> Effect(<<>>, <<BehaviourEvent(event.val)>>)

\* the first match of poll wrapping proto1's event and error as proto2's
poll_proto1_wrapped_as_second(r) ==
    CASE r.kind = "Custom" -> Custom(Second(r.event))
      [] r.kind = "Close" -> Close(EitherB(r.error))
      [] r.kind = "OutboundSubstreamRequest" ->
            OutboundSubstreamRequest(
                SubstreamProtocol(EitherA(r.protocol.upgrade),
                                  First(r.protocol.info),
                                  r.protocol.timeout))
      [] r.kind = "Pending" -> Pending

\* poll, first match: what the composed poll returns when proto1.poll returned r
\* (Pending: fall through to proto2)
poll_proto1(r) ==
    CASE r.kind = "Custom" -> Custom(First(r.event))
      [] r.kind = "Close" -> Close(EitherA(r.error))
      [] r.kind = "OutboundSubstreamRequest" ->
            OutboundSubstreamRequest(
                SubstreamProtocol(EitherA(r.protocol.upgrade),
                                  First(r.protocol.info),
                                  r.protocol.timeout))
      [] r.kind = "Pending" -> Pending

\* the second match of poll tagging proto2's open info as proto1's
poll_proto2_info_first(r) ==
    CASE r.kind = "Custom" -> Custom(Second(r.event))
      [] r.kind = "Close" -> Close(EitherB(r.error))
      [] r.kind = "OutboundSubstreamRequest" ->
            OutboundSubstreamRequest(
                SubstreamProtocol(EitherB(r.protocol.upgrade),
                                  First(r.protocol.info),
                                  r.protocol.timeout))
      [] r.kind = "Pending" -> Pending

\* poll, second match: the same for proto2.poll
poll_proto2(r) ==
    CASE r.kind = "Custom" -> Custom(Second(r.event))
      [] r.kind = "Close" -> Close(EitherB(r.error))
      [] r.kind = "OutboundSubstreamRequest" ->
            OutboundSubstreamRequest(
                SubstreamProtocol(EitherB(r.protocol.upgrade),
                                  Second(r.protocol.info),
                                  r.protocol.timeout))
      [] r.kind = "Pending" -> Pending

\* The Ord of KeepAlive: No < Until(t) < Yes, Until ordered by its instant.
KeepAliveCmp(a, b) ==
    CASE a.ka = b.ka /\ a.ka # "Until" -> "Equal"
      [] a.ka = "Until" /\ b.ka = "Until" ->
            IF a.until < b.until THEN "Less"
            ELSE IF a.until > b.until THEN "Greater" ELSE "Equal"
      [] a.ka = "No" \/ b.ka = "Yes" -> "Less"
      [] OTHER -> "Greater"

\* connection_keep_alive with cmp::min in place of cmp::max
connection_keep_alive_min(k1, k2) ==
    IF KeepAliveCmp(k1, k2) = "Greater" THEN k2 ELSE k1

\* connection_keep_alive: cmp::max(k1, k2), which returns k2 unless k1 > k2
connection_keep_alive(k1, k2) ==
    IF KeepAliveCmp(k1, k2) = "Greater" THEN k1 ELSE k2

\* listen_protocol with the two upgrades handed to SelectUpgrade::new in the wrong order
listen_protocol_swapped(lp1, lp2) ==
    SubstreamProtocol(SelectUpgrade(lp2.upgrade, lp1.upgrade),
                      <<lp1.info, lp2.info>>,
                      IF lp1.timeout > lp2.timeout THEN lp1.timeout ELSE lp2.timeout)

\* listen_protocol with the timeout of proto1 taken alone
listen_protocol_first_timeout(lp1, lp2) ==
    SubstreamProtocol(SelectUpgrade(lp1.upgrade, lp2.upgrade),
                      <<lp1.info, lp2.info>>,
                      lp1.timeout)

\* listen_protocol, from what proto1.listen_protocol() and proto2.listen_protocol()
\* returned
listen_protocol(lp1, lp2) ==
    LET timeout == IF lp1.timeout > lp2.timeout THEN lp1.timeout ELSE lp2.timeout
        choice == SelectUpgrade(lp1.upgrade, lp2.upgrade)
    IN  SubstreamProtocol(choice, <<lp1.info, lp2.info>>, timeout)

\* IntoConnectionHandlerSelect::inbound_protocol, from the two inner inbound protocols
inbound_protocol(u1, u2) == SelectUpgrade(u1, u2)

\* into_inner with the pair turned around
into_inner_swapped(p1, p2) == <<p2, p1>>

\* ConnectionHandlerSelect::into_inner and IntoConnectionHandlerSelect::into_inner
into_inner(p1, p2) == <<p1, p2>>

\* SelectUpgrade::protocol_info: the names of the first upgrade, as A, followed by
\* the names of the second, as B
protocol_info(sel) ==
    [n \in 1..Len(sel.first) |-> EitherA(sel.first[n])]
        \o [n \in 1..Len(sel.second) |-> EitherB(sel.second[n])]

----------------------------------------------------------------------------
(* The relay (protocols/relay): its reservation table, its circuit table,  *)
(* the hop exchanges it serves and the relay loop of each circuit.         *)

RelayPeers == {"p1", "p2"}
Exchanges == 1..MaxExchanges
\* the peer a CONNECT of p names: never the requester, never the relay
Destination(p) == CHOOSE q \in RelayPeers : q # p

\* Limits (configuration): fewer reservations than peers, and room for the
\* circuits of one peer and one more.
MaxReservations == Cardinality(RelayPeers) - 1
MaxCircuits == MaxCircuitsPerPeer + 1
\* the sizes of the chunks the relay loop reads
ChunkSizes == {1, 2}

\* a hop exchange: the request, its state, the status replied, the two directions
\* of its circuit (fwd: source to destination, bwd: back) and why the circuit or
\* the exchange ended
IdleExchange ==
    [kind |-> "none", peer |-> "none", dst |-> "none", state |-> "Idle",
     reply |-> "none", fwd |-> FALSE, bwd |-> FALSE, why |-> "none"]

\* the states in which an exchange is still going on
InFlight == {"AwaitingPolicyCheck", "AwaitingDownstream", "DownstreamFailed"}
\* the states in which an exchange holds a slot of the circuit table
Holding == {"AwaitingDownstream", "CircuitActive"}

Reservation(p, r) == [peer |-> p, by |-> r]
Circuit(r, src, dst) ==
    [id |-> r, src |-> src, dst |-> dst, bytes |-> 0, age |-> 0, active |-> FALSE]

HasReservation(res, p) == \E x \in res : x.peer = p
CircuitsOf(circs, p) == Cardinality({c \in circs : c.src = p})
CircuitOf(circs, r) == CHOOSE c \in circs : c.id = r

\* RESERVE with no limit checked
reserve_admits_always(res, p) == TRUE

\* RESERVE, the limit check: a renewal, or room in the table
reserve_admits(res, p) ==
    HasReservation(res, p) \/ Cardinality(res) < MaxReservations

\* RESERVE accepted with the new entry added beside the old one
reserve_insert_beside(res, p, r) == res \cup {Reservation(p, r)}

\* RESERVE accepted: the entry of the peer is inserted or replaced
reserve_insert(res, p, r) ==
    {x \in res : x.peer # p} \cup {Reservation(p, r)}

\* CONNECT, the limit check, with the table allowed to reach the limit and one more
connect_admits_one_more(circs, p) ==
    /\ Cardinality(circs) <= MaxCircuits
    /\ CircuitsOf(circs, p) <= MaxCircuitsPerPeer

\* CONNECT, the limit check: room in the table and among the circuits of the peer
connect_admits(circs, p) ==
    /\ Cardinality(circs) < MaxCircuits
    /\ CircuitsOf(circs, p) < MaxCircuitsPerPeer

\* a failed stop CONNECT that keeps the slot
stop_failed_release_nothing(circs, r) == circs

\* what a failed stop CONNECT releases: the slot of the attempt
stop_failed_release(circs, r) == {c \in circs : c.id # r}

\* a timeout that keeps the slot
timeout_release_nothing(circs, r) == circs

\* what a timed-out exchange releases: the slot it had begun to acquire
timeout_release(circs, r) == {c \in circs : c.id # r}

\* a timeout that ends every exchange of the connection
exchange_timed_out_with_connection(exs, r) ==
    [q \in Exchanges |->
        IF exs[q].peer = exs[r].peer /\ exs[q].state \in InFlight \cup Holding
        THEN [exs[q] EXCEPT !.state = "TimedOut", !.fwd = FALSE, !.bwd = FALSE,
                            !.why = IF exs[q].state = "AwaitingDownstream"
                                    THEN "StopTimeout" ELSE "HopTimeout"]
        ELSE exs[q]]

\* a timeout ends its exchange, the hop exchange or the stop exchange it waits
\* for: the substream is cancelled, nothing is replied
exchange_timed_out(exs, r) ==
    [exs EXCEPT ![r].state = "TimedOut",
                ![r].why = IF exs[r].state = "AwaitingDownstream"
                           THEN "StopTimeout" ELSE "HopTimeout"]

\* the relay loop forwarding a chunk whatever the bytes relayed so far
relay_chunk_unlimited(c, n) == [bytes |-> c.bytes + n, limit |-> FALSE]

\* the relay loop given a chunk of n bytes: forwarded if the circuit stays within
\* max_bytes, else the circuit limit is hit
relay_chunk(c, n) ==
    IF c.bytes + n <= MaxCircuitBytes
    THEN [bytes |-> c.bytes + n, limit |-> FALSE]
    ELSE [bytes |-> c.bytes, limit |-> TRUE]

\* an end of stream that closes both directions
end_of_stream_closes_both(e, dir) == [e EXCEPT !.fwd = FALSE, !.bwd = FALSE]

\* a clean end of stream in one direction: that direction is closed
end_of_stream(e, dir) ==
    IF dir = "fwd" THEN [e EXCEPT !.fwd = FALSE] ELSE [e EXCEPT !.bwd = FALSE]

\* the circuit is torn down: both substreams closed
torn_down(e, why) ==
    [e EXCEPT !.state = "Closed", !.why = why, !.fwd = FALSE, !.bwd = FALSE]

----------------------------------------------------------------------------
(* The state machine. *)

Init ==
    /\ proto1 = [id |-> 1, inbox |-> <<>>]
    /\ proto2 = [id |-> 2, inbox |-> <<>>]
    /\ call = [op |-> "new"]
    /\ ret = Unit
    /\ polled1 = NotPolled
    /\ polled2 = NotPolled
    /\ panicked = FALSE
    /\ inflight = <<>>
    /\ answered = NoRequest
    /\ reservations = {}
    /\ circuits = {}
    /\ ex = [r \in Exchanges |-> IdleExchange]
    /\ connected = [p \in RelayPeers |-> TRUE]
    /\ notified = <<>>
    /\ queue1 = <<>>
    /\ queue2 = <<>>
    /\ issued = <<>>
    /\ nfields = 0
    /\ field_tys = <<>>
    /\ user_provided_out_event = FALSE
    /\ swarm_call = [op |-> "none"]
    /\ swarm_ret = Unit
    /\ field_calls = <<>>

\* The handler can be called: it has not panicked and was not taken apart.
Alive == ~panicked /\ call.op # "into_inner"

\* The inner handlers receive what the handler hands them; a panic unwinds.
Deliver(eff) ==
    /\ proto1' = [proto1 EXCEPT !.inbox = eff.d1]
    /\ proto2' = [proto2 EXCEPT !.inbox = eff.d2]
    /\ panicked' = eff.panic
    /\ ret' = Unit
    /\ polled1' = NotPolled
    /\ polled2' = NotPolled
    /\ notified' = eff.order
    /\ UNCHANGED <<otherVars, queueVars>>

\* ConnectionHandler::on_connection_event
OnConnectionEvent(ev) ==
    /\ Alive
    /\ call' = [op |-> "on_connection_event", event |-> ev]
    /\ Deliver(on_connection_event(ev))
    /\ UNCHANGED <<inflight, answered>>

\* ConnectionHandler::on_behaviour_event
OnBehaviourEvent(ev) ==
    /\ Alive
    /\ call' = [op |-> "on_behaviour_event", event |-> ev]
    /\ Deliver(on_behaviour_event(ev))
    /\ UNCHANGED <<inflight, answered>>

\* poll polling proto2 as well when proto1 is ready, and returning proto1's event
PollWith_polls_both(r1) ==
    /\ Alive
    /\ call' = [op |-> "poll"]
    /\ polled1' = r1
    /\ proto1' = [proto1 EXCEPT !.inbox = <<>>]
    /\ proto2' = [proto2 EXCEPT !.inbox = <<>>]
    /\ \E r2 \in InnerPollResults :
            /\ polled2' = r2
            /\ ret' = (IF r1.kind # "Pending" THEN poll_proto1(r1) ELSE poll_proto2(r2))
    /\ notified' = <<1, 2>>
    /\ UNCHANGED <<panicked, otherVars>>

\* poll never going on to proto2
PollWith_proto1_only(r1) ==
    /\ Alive
    /\ call' = [op |-> "poll"]
    /\ polled1' = r1
    /\ proto1' = [proto1 EXCEPT !.inbox = <<>>]
    /\ proto2' = [proto2 EXCEPT !.inbox = <<>>]
    /\ ret' = poll_proto1(r1)
    /\ polled2' = NotPolled
    /\ notified' = <<1>>
    /\ UNCHANGED <<panicked, otherVars>>

\* ConnectionHandler::poll: proto1 is polled, and proto2 only if proto1 is Pending
PollWith(r1) ==
    /\ Alive
    /\ call' = [op |-> "poll"]
    /\ polled1' = r1
    /\ proto1' = [proto1 EXCEPT !.inbox = <<>>]
    /\ proto2' = [proto2 EXCEPT !.inbox = <<>>]
    /\ IF r1.kind # "Pending"
       THEN /\ ret' = poll_proto1(r1)
            /\ polled2' = NotPolled
       ELSE \E r2 \in InnerPollResults :
            /\ polled2' = r2
            /\ ret' = poll_proto2(r2)
    /\ notified' = (IF r1.kind # "Pending" THEN <<1>> ELSE <<1, 2>>)
    /\ UNCHANGED <<panicked, otherVars>>

Poll ==
    /\ \E r1 \in InnerPollResults : PollWith(r1)
    /\ UNCHANGED <<inflight, answered, queueVars>>

\* ConnectionHandler::connection_keep_alive
ConnectionKeepAlive ==
    /\ Alive
    /\ \E k1 \in KeepAlives, k2 \in KeepAlives :
        /\ call' = [op |-> "connection_keep_alive", k1 |-> k1, k2 |-> k2]
        /\ ret' = connection_keep_alive(k1, k2)
    /\ proto1' = [proto1 EXCEPT !.inbox = <<>>]
    /\ proto2' = [proto2 EXCEPT !.inbox = <<>>]
    /\ polled1' = NotPolled
    /\ polled2' = NotPolled
    /\ notified' = <<1, 2>>
    /\ UNCHANGED <<panicked, inflight, answered, otherVars, queueVars>>

\* ConnectionHandler::listen_protocol
ListenProtocol ==
    /\ Alive
    /\ \E lp1 \in InnerListenProtocols, lp2 \in InnerListenProtocols :
        /\ call' = [op |-> "listen_protocol", lp1 |-> lp1, lp2 |-> lp2]
        /\ ret' = listen_protocol(lp1, lp2)
    /\ proto1' = [proto1 EXCEPT !.inbox = <<>>]
    /\ proto2' = [proto2 EXCEPT !.inbox = <<>>]
    /\ polled1' = NotPolled
    /\ polled2' = NotPolled
    /\ notified' = <<1, 2>>
    /\ UNCHANGED <<panicked, inflight, answered, otherVars, queueVars>>

\* IntoConnectionHandlerSelect::inbound_protocol, asked of the composed prototype
InboundProtocol ==
    /\ Alive
    /\ \E u1 \in InboundUpgrades, u2 \in InboundUpgrades :
        /\ call' = [op |-> "inbound_protocol", u1 |-> u1, u2 |-> u2]
        /\ ret' = inbound_protocol(u1, u2)
    /\ proto1' = [proto1 EXCEPT !.inbox = <<>>]
    /\ proto2' = [proto2 EXCEPT !.inbox = <<>>]
    /\ polled1' = NotPolled
    /\ polled2' = NotPolled
    /\ notified' = <<1, 2>>
    /\ UNCHANGED <<panicked, inflight, answered, otherVars, queueVars>>

\* into_inner: the composed handler is consumed and its two inner handlers are
\* returned as they are
IntoInner ==
    /\ Alive
    /\ call' = [op |-> "into_inner"]
    /\ ret' = into_inner(proto1, proto2)
    /\ UNCHANGED <<proto1, proto2, polled1, polled2, panicked, inflight, answered,
                   notified, otherVars, queueVars>>

Next ==
    \/ \E ev \in ConnectionEvents : OnConnectionEvent(ev)
    \/ \E ev \in EitherOutputs : OnBehaviourEvent(ev)
    \/ Poll
    \/ ConnectionKeepAlive
    \/ ListenProtocol
    \/ InboundProtocol
    \/ IntoInner

Spec == Init /\ [][Next]_vars

----------------------------------------------------------------------------
(* The runtime that drives the handler (the connection task): it polls the *)
(* handler, opens the substreams the handler requests and answers each     *)
(* request with the info the handler emitted and a result of the emitted   *)
(* upgrade.                                                                *)

\* EitherUpgrade::upgrade_outbound: A(u) yields EitherOutput::First, B(u) Second
UpgradeOutput(up, out) == IF up.tag = "A" THEN First(out) ELSE Second(out)

\* the errors an outbound EitherUpgrade can end with: A(u) fails with EitherError::A
UpgradeErrors(up) ==
    PreNegotiationErrs
        \cup {UpgradeApply(IF up.tag = "A" THEN EitherA(e) ELSE EitherB(e)) :
                e \in Payloads}

RemoveAt(s, n) == SubSeq(s, 1, n - 1) \o SubSeq(s, n + 1, Len(s))

\* The runtime polls the handler and keeps the request it gets (its upgrade and
\* info; the timeout only arms the runtime's timer), with the inner handler
\* whose poll produced it.
RuntimePoll ==
    /\ Len(inflight) < MaxInflight
    /\ \E r1 \in InnerPollResults : PollWith(r1)
    /\ inflight' =
         IF ret'.kind = "OutboundSubstreamRequest"
         THEN Append(inflight,
                     [protocol |-> [upgrade |-> ret'.protocol.upgrade,
                                    info |-> ret'.protocol.info],
                      issuer |-> IF polled1'.kind # "Pending" THEN 1 ELSE 2])
         ELSE inflight
    /\ answered' = NoRequest
    /\ UNCHANGED queueVars

\* The upgrade of an in-flight request succeeds.
ResolveNegotiated(n) ==
    /\ Alive
    /\ \E out \in Payloads :
        LET req == inflight[n]
            ev == FullyNegotiatedOutbound(
                      UpgradeOutput(req.protocol.upgrade, out), req.protocol.info)
        IN  /\ call' = [op |-> "on_connection_event", event |-> ev]
            /\ Deliver(on_connection_event(ev))
    /\ answered' = inflight[n]
    /\ inflight' = RemoveAt(inflight, n)

\* The upgrade of an in-flight request fails.
ResolveDialError(n) ==
    /\ Alive
    /\ \E e \in UpgradeErrors(inflight[n].protocol.upgrade) :
        LET ev == DialUpgradeError(inflight[n].protocol.info, e)
        IN  /\ call' = [op |-> "on_connection_event", event |-> ev]
            /\ Deliver(on_connection_event(ev))
    /\ answered' = inflight[n]
    /\ inflight' = RemoveAt(inflight, n)

NextRuntime ==
    \/ RuntimePoll
    \/ \E n \in 1..Len(inflight) : ResolveNegotiated(n)
    \/ \E n \in 1..Len(inflight) : ResolveDialError(n)

SpecRuntime == Init /\ [][NextRuntime]_vars

----------------------------------------------------------------------------
(* The relay's state machine. *)

\* A peer sends RESERVE or CONNECT on its connection to the relay.  Exchanges are
\* numbered in the order of their arrival, and peers in the order of their first
\* request.
HopArrives(r, kind, p) ==
    /\ ex[r].state = "Idle"
    /\ \A q \in Exchanges : q < r => ex[q].state # "Idle"
    /\ r = 1 => p = "p1"
    /\ connected[p]
    /\ ex' = [ex EXCEPT ![r] =
                [IdleExchange EXCEPT
                    !.kind = kind, !.peer = p, !.state = "AwaitingPolicyCheck",
                    !.dst = IF kind = "CONNECT" THEN Destination(p) ELSE "none"]]
    /\ UNCHANGED <<reservations, circuits, connected, nonRelayVars>>

\* InboundHop, RESERVE: the limit check and the insertion are one step.
Reserve(r) ==
    /\ ex[r].state = "AwaitingPolicyCheck"
    /\ ex[r].kind = "RESERVE"
    /\ IF reserve_admits(reservations, ex[r].peer)
       THEN /\ reservations' = reserve_insert(reservations, ex[r].peer, r)
            /\ ex' = [ex EXCEPT ![r].state = "Done", ![r].reply = "OK"]
       ELSE /\ ex' = [ex EXCEPT ![r].state = "Rejected", ![r].why = "Limit",
                                ![r].reply = "RESOURCE_LIMIT_EXCEEDED"]
            /\ UNCHANGED reservations
    /\ UNCHANGED <<circuits, connected, nonRelayVars>>

\* InboundHop, CONNECT: the limit check and the insertion are one step; the
\* outbound stop to the destination starts.
Connect(r) ==
    /\ ex[r].state = "AwaitingPolicyCheck"
    /\ ex[r].kind = "CONNECT"
    /\ IF connect_admits(circuits, ex[r].peer)
       THEN /\ circuits' = circuits \cup {Circuit(r, ex[r].peer, ex[r].dst)}
            /\ ex' = [ex EXCEPT ![r].state = "AwaitingDownstream"]
       ELSE /\ ex' = [ex EXCEPT ![r].state = "Rejected", ![r].why = "Limit",
                                ![r].reply = "RESOURCE_LIMIT_EXCEEDED"]
            /\ UNCHANGED circuits
    /\ UNCHANGED <<reservations, connected, nonRelayVars>>

\* OutboundStop succeeds: the circuit is spliced and OK is replied.
StopAccepted(r) ==
    /\ ex[r].state = "AwaitingDownstream"
    /\ circuits' = (circuits \ {CircuitOf(circuits, r)})
                       \cup {[CircuitOf(circuits, r) EXCEPT !.active = TRUE]}
    /\ ex' = [ex EXCEPT ![r].state = "CircuitActive", ![r].reply = "OK",
                        ![r].fwd = TRUE, ![r].bwd = TRUE]
    /\ UNCHANGED <<reservations, connected, nonRelayVars>>

\* OutboundStop fails (the destination refuses or cannot be reached): what was
\* reserved for the attempt is released.
StopFailed(r) ==
    /\ ex[r].state = "AwaitingDownstream"
    /\ circuits' = stop_failed_release(circuits, r)
    /\ ex' = [ex EXCEPT ![r].state = "DownstreamFailed", ![r].why = "Downstream"]
    /\ UNCHANGED <<reservations, connected, nonRelayVars>>

\* ... and then the status is sent to the source.
ReplyConnectionFailed(r) ==
    /\ ex[r].state = "DownstreamFailed"
    /\ ex' = [ex EXCEPT ![r].state = "Rejected", ![r].reply = "CONNECTION_FAILED"]
    /\ UNCHANGED <<reservations, circuits, connected, nonRelayVars>>

\* The exchange runs into its timeout.
ExchangeTimeout(r) ==
    /\ ex[r].state \in InFlight
    /\ circuits' = timeout_release(circuits, r)
    /\ ex' = exchange_timed_out(ex, r)
    /\ UNCHANGED <<reservations, connected, nonRelayVars>>

\* A reservation's renewal deadline passes.
ReservationExpires(p) ==
    /\ HasReservation(reservations, p)
    /\ reservations' = {x \in reservations : x.peer # p}
    /\ UNCHANGED <<circuits, ex, connected, nonRelayVars>>

\* The connection of a peer closes: its reservation is evicted, its exchanges
\* and its circuits end.
ConnectionCloses(p) ==
    /\ connected[p]
    /\ connected' = [connected EXCEPT ![p] = FALSE]
    /\ reservations' = {x \in reservations : x.peer # p}
    /\ circuits' = {c \in circuits : c.src # p}
    /\ ex' = [r \in Exchanges |->
                IF ex[r].peer = p /\ ex[r].state \in InFlight \cup Holding
                THEN [ex[r] EXCEPT !.state = "ConnectionClosed", !.why = "Connection",
                                   !.fwd = FALSE, !.bwd = FALSE]
                ELSE ex[r]]
    /\ UNCHANGED nonRelayVars

\* The relay loop reads a chunk of n bytes in one direction.
RelayChunk(r, dir, n) ==
    /\ ex[r].state = "CircuitActive"
    /\ IF dir = "fwd" THEN ex[r].fwd ELSE ex[r].bwd
    /\ LET c == CircuitOf(circuits, r)
           out == relay_chunk(c, n)
       IN  IF out.limit
           THEN /\ circuits' = circuits \ {c}
                /\ ex' = [ex EXCEPT ![r] = torn_down(ex[r], "Limit")]
           ELSE /\ circuits' = (circuits \ {c}) \cup {[c EXCEPT !.bytes = out.bytes]}
                /\ UNCHANGED ex
    /\ UNCHANGED <<reservations, connected, nonRelayVars>>

\* Time passes for the active circuits, none of which may outlive max_duration.
Tick ==
    /\ \E c \in circuits : c.active
    /\ \A c \in circuits : c.active => c.age < MaxCircuitDuration
    /\ circuits' = {IF c.active THEN [c EXCEPT !.age = c.age + 1] ELSE c : c \in circuits}
    /\ UNCHANGED <<reservations, ex, connected, nonRelayVars>>

\* A circuit has lived for max_duration: the circuit limit is hit.
DurationReached(r) ==
    /\ ex[r].state = "CircuitActive"
    /\ CircuitOf(circuits, r).age >= MaxCircuitDuration
    /\ circuits' = circuits \ {CircuitOf(circuits, r)}
    /\ ex' = [ex EXCEPT ![r] = torn_down(ex[r], "Limit")]
    /\ UNCHANGED <<reservations, connected, nonRelayVars>>

\* One direction reaches a clean end of stream; the circuit ends with the second.
EndOfStream(r, dir) ==
    /\ ex[r].state = "CircuitActive"
    /\ IF dir = "fwd" THEN ex[r].fwd ELSE ex[r].bwd
    /\ LET e == end_of_stream(ex[r], dir)
       IN  IF ~e.fwd /\ ~e.bwd
           THEN /\ circuits' = circuits \ {CircuitOf(circuits, r)}
                /\ ex' = [ex EXCEPT ![r] = torn_down(e, "Eof")]
           ELSE /\ ex' = [ex EXCEPT ![r] = e]
                /\ UNCHANGED circuits
    /\ UNCHANGED <<reservations, connected, nonRelayVars>>

\* An I/O error on either substream tears the circuit down.
IoError(r) ==
    /\ ex[r].state = "CircuitActive"
    /\ circuits' = circuits \ {CircuitOf(circuits, r)}
    /\ ex' = [ex EXCEPT ![r] = torn_down(ex[r], "IoError")]
    /\ UNCHANGED <<reservations, connected, nonRelayVars>>

NextRelay ==
    \/ \E r \in Exchanges, kind \in {"RESERVE", "CONNECT"}, p \in RelayPeers :
            HopArrives(r, kind, p)
    \/ \E r \in Exchanges : Reserve(r)
    \/ \E r \in Exchanges : Connect(r)
    \/ \E r \in Exchanges : StopAccepted(r)
    \/ \E r \in Exchanges : StopFailed(r)
    \/ \E r \in Exchanges : ReplyConnectionFailed(r)
    \/ \E r \in Exchanges : ExchangeTimeout(r)
    \/ \E p \in RelayPeers : ReservationExpires(p)
    \/ \E p \in RelayPeers : ConnectionCloses(p)
    \/ \E r \in Exchanges, dir \in {"fwd", "bwd"}, n \in ChunkSizes : RelayChunk(r, dir, n)
    \/ Tick
    \/ \E r \in Exchanges : DurationReached(r)
    \/ \E r \in Exchanges, dir \in {"fwd", "bwd"} : EndOfStream(r, dir)
    \/ \E r \in Exchanges : IoError(r)

SpecRelay == Init /\ [][NextRelay]_vars

----------------------------------------------------------------------------
(* RequestId (protocols/relay/src/lib.rs): the id of a request.            *)

\* the values rand::random() can return
Randoms == 0..MaxRandom

\* an id that keeps only the low bit of the value drawn
RequestId_new_narrowed(x) == x % 2

\* RequestId::new: RequestId(rand::random()), x being the value drawn
RequestId_new(x) == x

\* A request is made and gets its id.
NewRequest ==
    /\ Len(issued) < MaxRequests
    /\ \E x \in Randoms :
        issued' = Append(issued, [random |-> x, id |-> RequestId_new(x)])
    /\ UNCHANGED <<handlerVars, relayVars, queueVars, deriveVars>>

NextRequestId == NewRequest

SpecRequestId == Init /\ [][NextRequestId]_vars

----------------------------------------------------------------------------
(* #[derive(NetworkBehaviour)] (swarm-derive/src/lib.rs): the impl the     *)
(* macro generates for a struct of nfields named fields, numbered from 0   *)
(* in the order of their declaration.                                      *)

Fields(n) == 0..(n - 1)

\* the types of the fields of the structs examined: every field of a type of
\* its own, or every field of the type of the first
BehaviourTys ==
    <<"ping::Behaviour", "kad::Behaviour", "relay::Behaviour", "autonat::Behaviour">>
FieldTys(n) ==
    {[k \in 1..n |-> BehaviourTys[k]], [k \in 1..n |-> BehaviourTys[1]]}

\* the handler self.<field i>.new_handler() returns, and the handler a Dial of
\* field i provides
FieldHandler(i) == [kind |-> "handler", field |-> i, provided |-> FALSE]
ProvidedHandler(i) == [kind |-> "handler", field |-> i, provided |-> TRUE]
\* <field i's type as NetworkBehaviour>::ConnectionHandler
FieldHandlerTy(i) == [kind |-> "type", field |-> i]

\* IntoConnectionHandler::select(h, builder): IntoConnectionHandlerSelect::new
Select(h, builder) == [kind |-> "select", proto1 |-> h, proto2 |-> builder]

\* the loops `match out { Some(h) => out = Some(select(h, b)), None => out = Some(b) }`
\* over the first k builders
RECURSIVE fold_select(_, _)
fold_select(builders, k) ==
    IF k = 1
    THEN builders[1]
    ELSE Select(fold_select(builders, k - 1), builders[k])

\* the fold nesting to the right: b1.select(b2.select(b3))
RECURSIVE fold_select_right(_, _)
fold_select_right(builders, k) ==
    IF k = Len(builders)
    THEN builders[k]
    ELSE Select(builders[k], fold_select_right(builders, k + 1))

\* new_handler built with the fold to the right
new_handler_right_fold(n) ==
    fold_select_right([k \in 1..n |-> FieldHandler(k - 1)], 1)

\* the content of new_handler()
new_handler(n) == fold_select([k \in 1..n |-> FieldHandler(k - 1)], n)

\* type ConnectionHandler
connection_handler_ty(n) == fold_select([k \in 1..n |-> FieldHandlerTy(k - 1)], n)

\* the handler of a Dial with a new handler of every field, the dialing one too
new_handlers_only(n, field_n) ==
    fold_select([k \in 1..n |-> FieldHandler(k - 1)], n)

\* provided_handler_and_new_handlers for the field field_n that dials
provided_handler_and_new_handlers(n, field_n) ==
    fold_select([k \in 1..n |-> IF k - 1 = field_n
                                THEN ProvidedHandler(k - 1)
                                ELSE FieldHandler(k - 1)], n)

\* an event of a field's handler, and the patterns of a match arm
HandlerEvent(e) == [tag |-> "Event", val |-> e]
Bind == [tag |-> "ev"]

\* `for _ in 0..count { elem = First(elem) }`
RECURSIVE wrap_first(_, _)
wrap_first(elem, count) ==
    IF count = 0 THEN elem ELSE wrap_first(First(elem), count - 1)

\* on_node_event_stmts: the pattern of the arm of field enum_n
on_node_event_arm(n, enum_n) ==
    wrap_first(IF enum_n # 0 THEN Second(Bind) ELSE Bind, n - 1 - enum_n)

\* a pattern matched against a value: what `ev` is bound to, or no match
NoMatch == [tag |-> "no match"]
RECURSIVE match_arm(_, _)
match_arm(pattern, value) ==
    IF pattern = Bind
    THEN value
    ELSE IF value.tag = pattern.tag
         THEN match_arm(pattern.val, value.val)
         ELSE NoMatch

\* the handler h is, or contains, the handler of field i
RECURSIVE HasField(_, _)
HasField(h, i) ==
    IF h.kind = "select"
    THEN HasField(h.proto1, i) \/ HasField(h.proto2, i)
    ELSE h.field = i

\* what the composed handler h returns from poll when the handler of field i
\* returns Custom(event) and the handlers polled before it are Pending: every
\* ConnectionHandlerSelect on the way wraps it
RECURSIVE composed_poll(_, _, _)
composed_poll(h, i, event) ==
    IF h.kind = "select"
    THEN IF HasField(h.proto1, i)
         THEN poll_proto1(composed_poll(h.proto1, i, event))
         ELSE poll_proto2(composed_poll(h.proto2, i, event))
    ELSE Custom(event)

\* the first arm of `match event` that matches, from arm k on
RECURSIVE first_arm(_, _, _)
first_arm(n, k, event) ==
    IF k >= n
    THEN <<>>
    ELSE IF match_arm(on_node_event_arm(n, k), event) # NoMatch
         THEN <<[field |-> k, op |-> "on_connection_handler_event",
                 event |-> match_arm(on_node_event_arm(n, k), event)]>>
         ELSE first_arm(n, k + 1, event)

\* the generated on_connection_handler_event: the calls it makes on the fields
on_connection_handler_event(n, event) == first_arm(n, 0, event)

\* FromSwarm: the events every field is told of as they are, and the events that
\* hand back the handler of the connection
FanOutKinds ==
    {"ConnectionEstablished", "AddressChange", "NewListener", "NewListenAddr",
     "ExpiredListenAddr", "NewExternalAddr", "ExpiredExternalAddr",
     "ListenerError", "ListenerClosed"}
HandlerKinds == {"ConnectionClosed", "DialFailure", "ListenFailure"}

\* the handlers the swarm can hand back: one the behaviour built in new_handler
\* or in a Dial of one of its fields
HandedBack(n) ==
    {new_handler(n)} \cup {provided_handler_and_new_handlers(n, i) : i \in Fields(n)}

FromSwarms(n) ==
    {[kind |-> k, payload |-> x] : k \in FanOutKinds, x \in Payloads}
        \cup {[kind |-> k, payload |-> x, handler |-> h] :
                k \in HandlerKinds, x \in Payloads, h \in HandedBack(n)}

FieldCall(i, event) == [field |-> i, op |-> "on_swarm_event", event |-> event]

\* the statements of a fan-out event run from the last field to the first
fan_out_stmts_reversed(n, event) == [k \in 1..n |-> FieldCall(n - k, event)]

\* on_connection_established_stmts, ..., on_listener_closed_stmts: one statement
\* per field in the order of declaration, each with the fields of the event
fan_out_stmts(n, event) == [k \in 1..n |-> FieldCall(k - 1, event)]

\* the statements of a handler event handing every field the whole handler
RECURSIVE handler_stmts_whole(_, _, _)
handler_stmts_whole(field_n, handlers, event) ==
    IF field_n = 0
    THEN <<FieldCall(0, [event EXCEPT !.handler = handlers])>>
    ELSE <<FieldCall(field_n, [event EXCEPT !.handler = handlers])>>
            \o handler_stmts_whole(field_n - 1, handlers, event)

\* on_connection_closed_stmts, on_dial_failure_stmts, on_listen_failure_stmts:
\* from the last field to the first, `let (handlers, handler) =
\* handlers.into_inner()`, and `let handler = handlers` for field 0
RECURSIVE handler_stmts(_, _, _)
handler_stmts(field_n, handlers, event) ==
    IF field_n = 0
    THEN <<FieldCall(0, [event EXCEPT !.handler = handlers])>>
    ELSE LET inner == into_inner(handlers.proto1, handlers.proto2)
         IN  <<FieldCall(field_n, [event EXCEPT !.handler = inner[2]])>>
                \o handler_stmts(field_n - 1, inner[1], event)

\* the generated on_swarm_event: the calls it makes on the fields
on_swarm_event(n, event) ==
    IF event.kind \in HandlerKinds
    THEN handler_stmts(n - 1, event.handler, event)
    ELSE fan_out_stmts(n, event)

----------------------------------------------------------------------------
(* The generated poll. *)

\* the identifiers of the fields, by position, each a sequence of characters;
\* snake_case, as rustc asks of a field
FieldIdents ==
    << <<"p", "i", "n", "g">>,
       <<"k", "a", "d", "_", "d", "h", "t">>,
       <<"r", "e", "l", "a", "y">>,
       <<"a", "u", "t", "o", "_", "n", "a", "t">> >>
field_ident(field_n) == FieldIdents[field_n + 1]

\* the letter c in upper case
to_uppercase(c) ==
    LET Lowercase ==
            <<"a", "b", "c", "d", "e", "f", "g", "h", "i", "j", "k", "l", "m",
              "n", "o", "p", "q", "r", "s", "t", "u", "v", "w", "x", "y", "z">>
        Uppercase ==
            <<"A", "B", "C", "D", "E", "F", "G", "H", "I", "J", "K", "L", "M",
              "N", "O", "P", "Q", "R", "S", "T", "U", "V", "W", "X", "Y", "Z">>
    IN  Uppercase[CHOOSE k \in 1..Len(Lowercase) : Lowercase[k] = c]

\* to_upper_camel_case of a snake_case identifier, from character k on: the
\* words between the underscores, the first letter of each in upper case
RECURSIVE upper_camel_from(_, _, _)
upper_camel_from(ident, k, word_start) ==
    IF k > Len(ident)
    THEN <<>>
    ELSE IF ident[k] = "_"
         THEN upper_camel_from(ident, k + 1, TRUE)
         ELSE <<IF word_start THEN to_uppercase(ident[k]) ELSE ident[k]>>
                \o upper_camel_from(ident, k + 1, FALSE)

to_upper_camel_case(ident) == upper_camel_from(ident, 1, TRUE)

\* Poll<NetworkBehaviourAction<OutEvent, ConnectionHandler>>
Ready(action) == [kind |-> "Ready", action |-> action]
GenerateEvent(event) == [kind |-> "GenerateEvent", event |-> event]
Dial(opts, handler) == [kind |-> "Dial", opts |-> opts, handler |-> handler]
NotifyHandler(peer_id, handler, event) ==
    [kind |-> "NotifyHandler", peer_id |-> peer_id, handler |-> handler,
     event |-> event]
ReportObservedAddr(address, score) ==
    [kind |-> "ReportObservedAddr", address |-> address, score |-> score]
CloseConnection(peer_id, connection) ==
    [kind |-> "CloseConnection", peer_id |-> peer_id, connection |-> connection]

\* what the poll of a field returns: Pending or one of the five actions, the
\* fields of the action taking the values of one of two samples
PollKinds ==
    {"Pending", "GenerateEvent", "Dial", "NotifyHandler", "ReportObservedAddr",
     "CloseConnection"}
ActionSamples ==
    {[opts |-> "dial p1", peer_id |-> "p1", handler |-> "Any", event |-> "a",
      address |-> "/ip4/1.1.1.1", score |-> "Finite(1)", connection |-> "All"],
     [opts |-> "dial p2", peer_id |-> "p2", handler |-> "One(c1)", event |-> "b",
      address |-> "/ip4/2.2.2.2", score |-> "Infinite", connection |-> "One(c1)"]}
field_poll(field_n, kind, smp) ==
    CASE kind = "Pending" -> Pending
      [] kind = "GenerateEvent" -> Ready(GenerateEvent(smp.event))
      [] kind = "Dial" -> Ready(Dial(smp.opts, ProvidedHandler(field_n)))
      [] kind = "NotifyHandler" ->
            Ready(NotifyHandler(smp.peer_id, smp.handler, smp.event))
      [] kind = "ReportObservedAddr" ->
            Ready(ReportObservedAddr(smp.address, smp.score))
      [] kind = "CloseConnection" ->
            Ready(CloseConnection(smp.peer_id, smp.connection))

\* wrapped_event as for the field at the mirrored position
wrapped_event_mirrored(n, field_n, event) ==
    wrap_first(IF n - 1 - field_n # 0 THEN Second(event) ELSE event, field_n)

\* wrapped_event: the event of a NotifyHandler of field field_n
wrapped_event(n, field_n, event) ==
    wrap_first(IF field_n # 0 THEN Second(event) ELSE event, n - 1 - field_n)

\* `event.into()`: the From<<ty as NetworkBehaviour>::OutEvent> of the out_event
\* the user provided, chosen by the type of the event
From(ty, event) == [from |-> ty, val |-> event]

\* into_out_event with the identifier of the field as the name of the variant
into_out_event_ident_variant(attr, field_n, ty, event) ==
    IF ~attr
    THEN [variant |-> field_ident(field_n), val |-> event]
    ELSE From(ty, event)

\* into_out_event: out_event_definition.is_some() when the user provided none
into_out_event(attr, field_n, ty, event) ==
    IF ~attr
    THEN [variant |-> to_upper_camel_case(field_ident(field_n)), val |-> event]
    ELSE From(ty, event)

\* the arms of `match NetworkBehaviour::poll(&mut self.#field, ..)` that return
poll_arm(n, tys, attr, field_n, action) ==
    CASE action.kind = "GenerateEvent" ->
            GenerateEvent(into_out_event(attr, field_n, tys[field_n + 1],
                                         action.event))
      [] action.kind = "Dial" ->
            Dial(action.opts, provided_handler_and_new_handlers(n, field_n))
      [] action.kind = "NotifyHandler" ->
            NotifyHandler(action.peer_id, action.handler,
                          wrapped_event(n, field_n, action.event))
      [] action.kind = "ReportObservedAddr" ->
            ReportObservedAddr(action.address, action.score)
      [] action.kind = "CloseConnection" ->
            CloseConnection(action.peer_id, action.connection)

\* on_behaviour_event of the handler built from h: every ConnectionHandlerSelect
\* on the way calls one of its inner handlers; the calls the handlers of the
\* fields get
RECURSIVE composed_on_behaviour_event(_, _)
composed_on_behaviour_event(h, event) ==
    IF h.kind = "select"
    THEN LET eff == on_behaviour_event(event)
         IN  (IF eff.d1 # <<>>
              THEN composed_on_behaviour_event(h.proto1, eff.d1[1].event)
              ELSE <<>>)
             \o (IF eff.d2 # <<>>
                 THEN composed_on_behaviour_event(h.proto2, eff.d2[1].event)
                 ELSE <<>>)
    ELSE <<[field |-> h.field, op |-> "on_behaviour_event", event |-> event]>>

FieldPoll(field_n, returned) ==
    [field |-> field_n, op |-> "poll", returned |-> returned]

\* the statements of poll going on to the next field whatever a field returned,
\* and returning the first action met once every field was polled
RECURSIVE poll_stmts_polls_all(_, _, _, _, _)
poll_stmts_polls_all(n, tys, attr, field_n, results) ==
    IF field_n >= n
    THEN [ret |-> Pending, calls |-> <<>>]
    ELSE LET rest == poll_stmts_polls_all(n, tys, attr, field_n + 1, results)
         IN  [ret |-> IF results[field_n].kind = "Pending"
                      THEN rest.ret
                      ELSE Ready(poll_arm(n, tys, attr, field_n,
                                          results[field_n].action)),
              calls |-> <<FieldPoll(field_n, results[field_n])>> \o rest.calls]

\* poll_stmts from field field_n on, and the Poll::Pending that ends poll: what
\* poll returns and the polls it makes, results[k] being what field k returns
RECURSIVE poll_stmts(_, _, _, _, _)
poll_stmts(n, tys, attr, field_n, results) ==
    IF field_n >= n
    THEN [ret |-> Pending, calls |-> <<>>]
    ELSE IF results[field_n].kind = "Pending"
         THEN LET rest == poll_stmts(n, tys, attr, field_n + 1, results)
              IN  [ret |-> rest.ret,
                   calls |-> <<FieldPoll(field_n, results[field_n])>> \o rest.calls]
         ELSE [ret |-> Ready(poll_arm(n, tys, attr, field_n,
                                      results[field_n].action)),
               calls |-> <<FieldPoll(field_n, results[field_n])>>]

----------------------------------------------------------------------------
(* The derived behaviour's state machine. *)

\* The macro is expanded for a struct of n fields of the types tys, with or
\* without the attribute out_event.
Derive(n, tys, attr) ==
    /\ nfields = 0
    /\ nfields' = n
    /\ field_tys' = tys
    /\ user_provided_out_event' = attr
    /\ swarm_call' = [op |-> "derive"]
    /\ swarm_ret' = Unit
    /\ field_calls' = <<>>
    /\ UNCHANGED <<handlerVars, relayVars, queueVars, idVars>>

\* NetworkBehaviour::new_handler
NewHandler ==
    /\ nfields > 0
    /\ swarm_call' = [op |-> "new_handler"]
    /\ swarm_ret' = [handler |-> new_handler(nfields),
                     ty |-> connection_handler_ty(nfields)]
    /\ field_calls' = <<>>
    /\ UNCHANGED <<structVars, handlerVars, relayVars, queueVars, idVars>>

\* NetworkBehaviour::on_connection_handler_event, with an event of the handler of
\* field i as the composed handler returned it from poll
OnConnectionHandlerEvent(i, e) ==
    /\ nfields > 0
    /\ i \in Fields(nfields)
    /\ LET event == composed_poll(new_handler(nfields), i, HandlerEvent(e)).event
       IN  /\ swarm_call' = [op |-> "on_connection_handler_event",
                             from |-> i, emitted |-> HandlerEvent(e),
                             event |-> event]
           /\ field_calls' = on_connection_handler_event(nfields, event)
    /\ swarm_ret' = Unit
    /\ UNCHANGED <<structVars, handlerVars, relayVars, queueVars, idVars>>

\* NetworkBehaviour::on_swarm_event
OnSwarmEvent ==
    /\ nfields > 0
    /\ \E event \in FromSwarms(nfields) :
        /\ swarm_call' = [op |-> "on_swarm_event", event |-> event]
        /\ field_calls' = on_swarm_event(nfields, event)
    /\ swarm_ret' = Unit
    /\ UNCHANGED <<structVars, handlerVars, relayVars, queueVars, idVars>>

\* NetworkBehaviour::poll, the fields returning what kinds and smp say
BehaviourPoll ==
    /\ nfields > 0
    /\ \E kinds \in [Fields(nfields) -> PollKinds], smp \in ActionSamples :
        LET results == [k \in Fields(nfields) |-> field_poll(k, kinds[k], smp)]
            out == poll_stmts(nfields, field_tys, user_provided_out_event, 0,
                              results)
        IN  /\ swarm_call' = [op |-> "poll"]
            /\ swarm_ret' = out.ret
            /\ field_calls' = out.calls
    /\ UNCHANGED <<structVars, handlerVars, relayVars, queueVars, idVars>>

NextDerive ==
    \/ \E n \in 1..MaxFields, attr \in BOOLEAN :
            \E tys \in FieldTys(n) : Derive(n, tys, attr)
    \/ NewHandler
    \/ \E i \in Fields(MaxFields), e \in Payloads : OnConnectionHandlerEvent(i, e)
    \/ OnSwarmEvent
    \/ BehaviourPoll

SpecDerive == Init /\ [][NextDerive]_vars

----------------------------------------------------------------------------
(* The composed handler polled again and again, its inner handlers having  *)
(* events ready: an inner handler returns from poll the oldest event it    *)
(* has, and Pending when it has none.                                      *)

QueueEvents == {Custom(e) : e \in Payloads} \cup {Close(e) : e \in Payloads}

\* what an inner handler with these events ready returns from poll
inner_poll(queue) == IF queue = <<>> THEN Pending ELSE Head(queue)

\* what an inner handler still has ready after its poll returned r
after_poll(queue, r) ==
    IF r.kind \in {"Pending", "NotPolled"} THEN queue ELSE Tail(queue)

\* An inner handler gets an event ready.
Produce(side, e) ==
    /\ Alive
    /\ IF side = 1
       THEN /\ Len(queue1) < MaxQueue
            /\ queue1' = Append(queue1, e)
            /\ UNCHANGED queue2
       ELSE /\ Len(queue2) < MaxQueue
            /\ queue2' = Append(queue2, e)
            /\ UNCHANGED queue1
    /\ UNCHANGED <<handlerVars, otherVars>>

\* The runtime polls the composed handler.
PollQueues ==
    /\ PollWith(inner_poll(queue1))
    /\ polled2' \in {NotPolled, inner_poll(queue2)}
    /\ queue1' = after_poll(queue1, polled1')
    /\ queue2' = after_poll(queue2, polled2')
    /\ UNCHANGED <<inflight, answered>>

NextPoll ==
    \/ \E side \in {1, 2}, e \in QueueEvents : Produce(side, e)
    \/ PollQueues

\* the runtime polls the handler as long as polling makes a difference
SpecPoll == Init /\ [][NextPoll]_vars /\ WF_vars(PollQueues)

----------------------------------------------------------------------------
(* Properties. *)

\* The last call was on_connection_event with an event of this kind.
Got(kind) == call.op = "on_connection_event" /\ call.event.kind = kind

\* A DialUpgradeError whose error names the other side than its info does.
Mismatched(ev) ==
    /\ ev.error.err = "Apply"
    /\ \/ ev.info.tag = "First" /\ ev.error.inner.tag = "B"
       \/ ev.info.tag = "Second" /\ ev.error.inner.tag = "A"

\* C1: a FullyNegotiatedInbound whose output is tagged First gives proto1 exactly
\* one FullyNegotiatedInbound with that output and the info i1, and proto2
\* nothing; one tagged Second gives proto2 exactly one with i2, and proto1 nothing.
C1_InboundGoesToNegotiatedSide ==
    Got("FullyNegotiatedInbound") =>
        LET ev == call.event IN
        /\ ev.protocol.tag = "First" =>
            /\ proto1.inbox = <<FullyNegotiatedInbound(ev.protocol.val, ev.info[1])>>
            /\ proto2.inbox = <<>>
        /\ ev.protocol.tag = "Second" =>
            /\ proto2.inbox = <<FullyNegotiatedInbound(ev.protocol.val, ev.info[2])>>
            /\ proto1.inbox = <<>>
        /\ ~panicked

C1_Witness ==
    /\ Got("FullyNegotiatedInbound")
    /\ call.event.protocol.tag = "First"
    /\ call.event.info[1] # call.event.info[2]
    /\ Len(proto1.inbox) = 1

\* C2: a FullyNegotiatedOutbound whose output and info carry the same tag gives
\* the inner handler of that side exactly one FullyNegotiatedOutbound with the
\* unwrapped output and info, and the other inner handler nothing.
C2_OutboundGoesToTaggedSide ==
    (Got("FullyNegotiatedOutbound") /\ call.event.protocol.tag = call.event.info.tag) =>
        LET ev == call.event
            inner == FullyNegotiatedOutbound(ev.protocol.val, ev.info.val)
        IN
        /\ ev.info.tag = "First" => proto1.inbox = <<inner>> /\ proto2.inbox = <<>>
        /\ ev.info.tag = "Second" => proto2.inbox = <<inner>> /\ proto1.inbox = <<>>
        /\ ~panicked

C2_Witness ==
    /\ Got("FullyNegotiatedOutbound")
    /\ call.event.protocol.tag = "Second"
    /\ call.event.info.tag = "Second"
    /\ call.event.protocol.val # call.event.info.val
    /\ Len(proto2.inbox) = 1

\* C3: every OutboundSubstreamRequest the composed poll returns carries an upgrade
\* and an info tagged with the side whose poll produced it; and when the runtime
\* answers its requests with the emitted info and a result of the emitted upgrade,
\* every resolution reaches the inner handler that issued the request, with that
\* handler's own info, the other inner handler gets nothing, and no panic happens.
C3_ResolutionReturnsToIssuer ==
    /\ ~panicked
    /\ (call.op = "poll" /\ ret.kind = "OutboundSubstreamRequest") =>
        \/ /\ polled1.kind = "OutboundSubstreamRequest"
           /\ ret.protocol.upgrade.tag = "A"
           /\ ret.protocol.info.tag = "First"
        \/ /\ polled1.kind = "Pending"
           /\ polled2.kind = "OutboundSubstreamRequest"
           /\ ret.protocol.upgrade.tag = "B"
           /\ ret.protocol.info.tag = "Second"
    /\ \A n \in 1..Len(inflight) :
        inflight[n].protocol.info.tag = (IF inflight[n].issuer = 1 THEN "First" ELSE "Second")
    /\ answered.issuer = 1 =>
        /\ Len(proto1.inbox) = 1
        /\ proto1.inbox[1].kind = call.event.kind
        /\ proto1.inbox[1].info = answered.protocol.info.val
        /\ proto2.inbox = <<>>
    /\ answered.issuer = 2 =>
        /\ Len(proto2.inbox) = 1
        /\ proto2.inbox[1].kind = call.event.kind
        /\ proto2.inbox[1].info = answered.protocol.info.val
        /\ proto1.inbox = <<>>

C3_Witness ==
    /\ answered.issuer = 2
    /\ Got("DialUpgradeError")
    /\ call.event.error.err = "Apply"
    /\ Len(proto2.inbox) = 1
    /\ Len(inflight) > 0

\* C4: a Custom event returned by the composed poll is the event of the inner
\* handler whose poll produced it, wrapped First if and only if that was proto1
\* and Second if and only if it was proto2; a Close returned is the inner error
\* wrapped A for proto1 and B for proto2.
C4_PollWrapsBySide ==
    /\ (call.op = "poll" /\ ret.kind = "Custom") =>
        \/ polled1.kind = "Custom" /\ ret.event = First(polled1.event)
        \/ /\ polled1.kind = "Pending"
           /\ polled2.kind = "Custom"
           /\ ret.event = Second(polled2.event)
    /\ (call.op = "poll" /\ ret.kind = "Close") =>
        \/ polled1.kind = "Close" /\ ret.error = EitherA(polled1.error)
        \/ /\ polled1.kind = "Pending"
           /\ polled2.kind = "Close"
           /\ ret.error = EitherB(polled2.error)
    /\ (call.op = "poll" /\ polled1.kind \in {"Custom", "Close"}) => ret.kind = polled1.kind
    /\ (call.op = "poll" /\ polled1.kind = "Pending" /\ polled2.kind \in {"Custom", "Close"}) =>
        ret.kind = polled2.kind

C4_Witness ==
    /\ call.op = "poll"
    /\ ret.kind = "Close"
    /\ polled1.kind = "Close"
    /\ ret.error.tag = "A"

\* C5: connection_keep_alive returns the maximum, in the KeepAlive ordering, of the
\* two inner handlers' keep-alives: one of the two values, and neither inner value
\* is greater than it.
C5_KeepAliveIsMaximum ==
    call.op = "connection_keep_alive" =>
        /\ ret \in {call.k1, call.k2}
        /\ KeepAliveCmp(call.k1, ret) # "Greater"
        /\ KeepAliveCmp(call.k2, ret) # "Greater"

C5_Witness ==
    /\ call.op = "connection_keep_alive"
    /\ call.k1.ka = "Until"
    /\ call.k2.ka = "Until"
    /\ call.k1.until > call.k2.until
    /\ ret = call.k1

\* C6: on AddressChange, proto1 and proto2 each receive exactly one AddressChange
\* carrying the new address.
C6_AddressChangeReachesBoth ==
    Got("AddressChange") =>
        /\ proto1.inbox = <<AddressChange(call.event.new_address)>>
        /\ proto2.inbox = <<AddressChange(call.event.new_address)>>
        /\ ~panicked

C6_Witness ==
    /\ Got("AddressChange")
    /\ Len(proto1.inbox) = 1
    /\ Len(proto2.inbox) = 1

\* C7: a ListenUpgradeError with Upgrade(Apply(A(e))) gives proto1 alone a
\* ListenUpgradeError with info i1 and error Apply(e); with Apply(B(e)) proto2
\* alone gets it, with info i2.
C7_ListenApplyErrorGoesToOneSide ==
    (Got("ListenUpgradeError") /\ call.event.error.err = "Apply") =>
        LET ev == call.event
            e == UpgradeApply(ev.error.inner.val)
        IN
        /\ ev.error.inner.tag = "A" =>
            /\ proto1.inbox = <<ListenUpgradeError(ev.info[1], e)>>
            /\ proto2.inbox = <<>>
        /\ ev.error.inner.tag = "B" =>
            /\ proto2.inbox = <<ListenUpgradeError(ev.info[2], e)>>
            /\ proto1.inbox = <<>>
        /\ ~panicked

C7_Witness ==
    /\ Got("ListenUpgradeError")
    /\ call.event.error.err = "Apply"
    /\ call.event.error.inner.tag = "B"
    /\ call.event.info[1] # call.event.info[2]
    /\ Len(proto2.inbox) = 1

\* The error proto1 is given for a listen error before negotiation: the error
\* itself, an io::Error in it rebuilt from its kind.
KindOnly(error) ==
    IF error.err = "Select" /\ error.neg.neg = "ProtocolError" /\ error.neg.perr.pe = "IoError"
    THEN UpgradeSelect(NegProtocolError(PeIoError(
             [kind |-> error.neg.perr.io.kind, detail |-> "none"])))
    ELSE error

\* C8 as stated: a ListenUpgradeError before negotiation commits (Timer, Timeout,
\* Select(Failed), Select(ProtocolError(..))) gives proto1 one ListenUpgradeError
\* with info i1 and proto2 one with info i2, both with the very error received.
C8_Original_BothGetTheSameError ==
    (Got("ListenUpgradeError") /\ call.event.error \in PreNegotiationErrs) =>
        /\ proto1.inbox = <<ListenUpgradeError(call.event.info[1], call.event.error)>>
        /\ proto2.inbox = <<ListenUpgradeError(call.event.info[2], call.event.error)>>

\* C8 amended: a ListenUpgradeError before negotiation commits gives proto1 one
\* ListenUpgradeError with info i1 and proto2 one with info i2; proto2's carries
\* the error received, and proto1's carries the same error except that the
\* io::Error of a Select(ProtocolError(IoError(e))) is rebuilt from e's kind alone.
C8_BothGetTheSharedCause ==
    (Got("ListenUpgradeError") /\ call.event.error \in PreNegotiationErrs) =>
        /\ proto1.inbox =
               <<ListenUpgradeError(call.event.info[1], KindOnly(call.event.error))>>
        /\ proto2.inbox = <<ListenUpgradeError(call.event.info[2], call.event.error)>>
        /\ ~panicked

C8_Witness ==
    /\ Got("ListenUpgradeError")
    /\ call.event.error.err = "Select"
    /\ call.event.error.neg.neg = "ProtocolError"
    /\ call.event.error.neg.perr.pe = "IoError"
    /\ call.event.error.neg.perr.io.detail # "none"
    /\ Len(proto1.inbox) = 1
    /\ Len(proto2.inbox) = 1
    /\ proto1.inbox[1].error # proto2.inbox[1].error

\* C9: a DialUpgradeError with info First and error Upgrade(Apply(B(_))), or info
\* Second and error Upgrade(Apply(A(_))), makes the composed handler panic, and
\* neither inner handler receives an event.
C9_MismatchedDialErrorPanics ==
    (Got("DialUpgradeError") /\ Mismatched(call.event)) =>
        /\ panicked
        /\ proto1.inbox = <<>>
        /\ proto2.inbox = <<>>

C9_Witness ==
    /\ Got("DialUpgradeError")
    /\ call.event.info.tag = "First"
    /\ call.event.error.err = "Apply"
    /\ call.event.error.inner.tag = "B"
    /\ panicked

\* The error an inner handler is given for a matching DialUpgradeError: Timer,
\* Timeout and Select(e) as they are, Apply(A(e)) and Apply(B(e)) as Apply(e).
Unwrapped(error) ==
    IF error.err = "Apply" THEN UpgradeApply(error.inner.val) ELSE error

\* C10: a DialUpgradeError whose error matches its info tag is given to exactly
\* one inner handler, the one the info tag names, with the info unwrapped and the
\* error kind kept (Apply unwrapped); the other inner handler gets nothing, also
\* for Timer, Timeout and Select errors.
C10_MatchingDialErrorGoesToInfoSide ==
    (Got("DialUpgradeError") /\ ~Mismatched(call.event)) =>
        LET ev == call.event
            inner == DialUpgradeError(ev.info.val, Unwrapped(ev.error))
        IN
        /\ ev.info.tag = "First" => proto1.inbox = <<inner>> /\ proto2.inbox = <<>>
        /\ ev.info.tag = "Second" => proto2.inbox = <<inner>> /\ proto1.inbox = <<>>
        /\ ~panicked

C10_Witness ==
    /\ Got("DialUpgradeError")
    /\ call.event.info.tag = "Second"
    /\ call.event.error.err = "Select"
    /\ Len(proto2.inbox) = 1
    /\ proto1.inbox = <<>>

\* C11: the inbound protocol of the composed handler (listen_protocol, and
\* inbound_protocol of the composed prototype) offers the protocols of proto1
\* followed by those of proto2, all of them and nothing else, and the inbound
\* open info is the pair (i1, i2).
C11_InboundProtocolIsUnionInOrder ==
    /\ call.op = "listen_protocol" =>
        /\ protocol_info(ret.upgrade) =
               [n \in 1..Len(call.lp1.upgrade) |-> EitherA(call.lp1.upgrade[n])]
                   \o [n \in 1..Len(call.lp2.upgrade) |-> EitherB(call.lp2.upgrade[n])]
        /\ ret.info = <<call.lp1.info, call.lp2.info>>
    /\ call.op = "inbound_protocol" =>
        protocol_info(ret) =
            [n \in 1..Len(call.u1) |-> EitherA(call.u1[n])]
                \o [n \in 1..Len(call.u2) |-> EitherB(call.u2[n])]

C11_Witness ==
    /\ call.op = "listen_protocol"
    /\ call.lp1.upgrade = <<"/x", "/y">>
    /\ call.lp2.upgrade = <<"/x">>
    /\ call.lp1.info # call.lp2.info
    /\ Len(protocol_info(ret.upgrade)) = 3

\* C12: no operation of the composed handler replaces, swaps or removes proto1 or
\* proto2: in every state they are the two handlers it was built from, and
\* into_inner returns them in construction order.
C12_TreeShapeIsFixed ==
    /\ proto1.id = 1
    /\ proto2.id = 2
    /\ call.op = "into_inner" => ret = <<proto1, proto2>> /\ ret[1].id = 1 /\ ret[2].id = 2

C12_Witness ==
    /\ call.op = "into_inner"
    /\ Len(proto1.inbox) = 1
    /\ Len(proto2.inbox) = 1
    /\ ret[1].id = 1

\* the entries of the circuit table that belong to the exchange r
EntriesOf(r) == {c \in circuits : c.id = r}

\* C13: in every reachable state the reservation table holds at most one
\* reservation per peer; an accepted RESERVE of a peer that has one leaves the
\* peer with the new entry alone.
C13_OneReservationPerPeer ==
    /\ \A x, y \in reservations : x.peer = y.peer => x = y
    /\ \A x \in reservations :
            /\ ex[x.by].kind = "RESERVE"
            /\ ex[x.by].peer = x.peer
            /\ ex[x.by].reply = "OK"

C13_Witness ==
    /\ ex[1].kind = "RESERVE" /\ ex[1].reply = "OK"
    /\ ex[2].kind = "RESERVE" /\ ex[2].reply = "OK"
    /\ ex[1].peer = ex[2].peer
    /\ reservations = {Reservation(ex[2].peer, 2)}

\* the CONNECT requests of the peer p
ConnectsOf(p) == {r \in Exchanges : ex[r].kind = "CONNECT" /\ ex[r].peer = p}
Admitted(p) == {r \in ConnectsOf(p) : ex[r].state \in Holding}
RejectedByLimit(p) ==
    {r \in ConnectsOf(p) : ex[r].reply = "RESOURCE_LIMIT_EXCEEDED"}

\* C14: the circuits admitted never exceed the limits; and when a peer has made
\* more CONNECT requests than its limit allows, each of them decided while
\* every circuit admitted still holds its slot, exactly `limit` of them are
\* admitted and the others are rejected, in whatever order they arrived and
\* were decided.
C14_ExactlyLimitAdmitted ==
    /\ Cardinality(circuits) <= MaxCircuits
    /\ \A p \in RelayPeers :
            /\ CircuitsOf(circuits, p) <= MaxCircuitsPerPeer
            /\ (/\ Cardinality(ConnectsOf(p)) > MaxCircuitsPerPeer
                /\ ConnectsOf(p) = Admitted(p) \cup RejectedByLimit(p))
               => /\ Cardinality(Admitted(p)) = MaxCircuitsPerPeer
                  /\ Cardinality(RejectedByLimit(p)) =
                         Cardinality(ConnectsOf(p)) - MaxCircuitsPerPeer

C14_Witness ==
    \E p \in RelayPeers :
        /\ Cardinality(ConnectsOf(p)) > MaxCircuitsPerPeer
        /\ ConnectsOf(p) = Admitted(p) \cup RejectedByLimit(p)
        /\ ex[1].reply = "RESOURCE_LIMIT_EXCEEDED"
        /\ ex[2].state \in Holding

\* the request of the exchange r is beyond a configured limit
BeyondLimit(r) ==
    IF ex[r].kind = "RESERVE"
    THEN /\ \A x \in reservations : x.peer # ex[r].peer
         /\ Cardinality(reservations) >= MaxReservations
    ELSE \/ Cardinality(circuits) >= MaxCircuits
         \/ Cardinality({c \in circuits : c.src = ex[r].peer}) >= MaxCircuitsPerPeer

\* C15: when the relay decides a RESERVE or a CONNECT that is beyond a
\* configured limit, it replies RESOURCE_LIMIT_EXCEEDED in that step and both
\* tables stay as they were.
C15_BeyondLimitIsRejected ==
    [][\A r \in Exchanges :
          (/\ ex[r].state = "AwaitingPolicyCheck"
           /\ ex'[r].state \in {"Done", "AwaitingDownstream", "Rejected"}
           /\ BeyondLimit(r))
          => /\ ex'[r].state = "Rejected"
             /\ ex'[r].reply = "RESOURCE_LIMIT_EXCEEDED"
             /\ reservations' = reservations
             /\ circuits' = circuits]_vars

C15_Witness ==
    /\ ex[2].kind = "RESERVE"
    /\ ex[2].reply = "RESOURCE_LIMIT_EXCEEDED"
    /\ ex[1].peer # ex[2].peer
    /\ reservations = {Reservation(ex[1].peer, 1)}

\* C16: after the stop CONNECT failed, the slot of the attempt is gone from the
\* circuit table while no status has been sent yet, and the status sent to the
\* source is CONNECTION_FAILED, with no entry of the attempt left.
C16_DownstreamFailureReleasesFirst ==
    \A r \in Exchanges :
        /\ ex[r].state = "DownstreamFailed" =>
                ex[r].reply = "none" /\ EntriesOf(r) = {}
        /\ ex[r].why = "Downstream" /\ ex[r].state = "Rejected" =>
                ex[r].reply = "CONNECTION_FAILED" /\ EntriesOf(r) = {}
        /\ ex[r].reply = "CONNECTION_FAILED" =>
                ex[r].why = "Downstream" /\ EntriesOf(r) = {}

C16_Witness ==
    /\ ex[1].kind = "CONNECT"
    /\ ex[1].state = "Rejected"
    /\ ex[1].reply = "CONNECTION_FAILED"
    /\ ex[2].state = "AwaitingDownstream"
    /\ Cardinality(circuits) = 1

C18_NoSlotWithoutCircuit ==
    /\ \A c \in circuits :
            /\ ex[c.id].state \in Holding
            /\ c.active <=> ex[c.id].state = "CircuitActive"
            /\ c.src = ex[c.id].peer
    /\ \A r \in Exchanges : ex[r].state = "TimedOut" => EntriesOf(r) = {}
    /\ (\A r \in Exchanges : ex[r].state \notin InFlight \cup Holding) => circuits = {}

C18_Witness ==
    /\ ex[1].state = "TimedOut" /\ ex[1].why = "StopTimeout"
    /\ ex[2].state = "TimedOut" /\ ex[2].why = "HopTimeout"
    /\ circuits = {}

\* C19: a circuit with one direction closed is still active and in the table;
\* no circuit ends by an end of stream while both directions were open; and an
\* I/O error closes both directions and removes the circuit in one step.
C19_HalfCloseAndTearDown ==
    [][\A r \in Exchanges :
          /\ ex[r].fwd # ex[r].bwd =>
                ex[r].state = "CircuitActive" /\ EntriesOf(r) # {}
          /\ ex[r].fwd /\ ex[r].bwd => ex'[r].why # "Eof"
          /\ ex[r].fwd /\ ex[r].bwd /\ (ex'[r].fwd # ex'[r].bwd) =>
                /\ ex'[r].state = "CircuitActive"
                /\ circuits' = circuits
          /\ ex[r].why # "IoError" /\ ex'[r].why = "IoError" =>
                /\ ~ex'[r].fwd /\ ~ex'[r].bwd
                /\ ex'[r].state = "Closed"
                /\ \A c \in circuits' : c.id # r]_vars

C19_Witness ==
    /\ ex[1].state = "CircuitActive" /\ ~ex[1].fwd /\ ex[1].bwd
    /\ ex[2].state = "Closed" /\ ex[2].why = "IoError"
    /\ \E c \in circuits : c.id = 1 /\ c.bytes > 0

\* C20: the step in which an exchange times out changes no other exchange, no
\* slot of another exchange and no connection.
C20_TimeoutIsLocal ==
    [][\A r \in Exchanges :
          ex[r].state # "TimedOut" /\ ex'[r].state = "TimedOut" =>
              /\ connected' = connected
              /\ \A q \in Exchanges \ {r} : ex'[q] = ex[q]
              /\ {c \in circuits' : c.id # r} = {c \in circuits : c.id # r}
              /\ reservations' = reservations]_vars

C20_Witness ==
    /\ ex[2].state = "TimedOut"
    /\ ex[1].peer = ex[2].peer
    /\ ex[1].state = "CircuitActive"
    /\ connected[ex[1].peer]

\* C21 as stated: any two calls of RequestId::new return different identifiers.
C21_Original_NoReuse ==
    \A i, j \in 1..Len(issued) : i # j => issued[i].id # issued[j].id

\* C21: two calls of RequestId::new return the same identifier exactly when
\* rand::random returned the same value to both; nothing else makes two
\* identifiers equal, and nothing keeps them apart.
C21_ReusedOnlyWhenRandomRepeats ==
    \A i, j \in 1..Len(issued) :
        issued[i].id = issued[j].id <=> issued[i].random = issued[j].random

C21_Witness ==
    /\ Len(issued) = 3
    /\ issued[1].id = issued[3].id
    /\ issued[1].id # issued[2].id

\* C22 as stated: new_handler nests to the right, f1.select(f2.select(f3)), and
\* so do type ConnectionHandler and the patterns of the event arms.
C22_Original_RightFold ==
    swarm_call.op = "new_handler" =>
        /\ swarm_ret.handler = new_handler_right_fold(nfields)
        /\ swarm_ret.ty =
               fold_select_right([k \in 1..nfields |-> FieldHandlerTy(k - 1)], 1)
        /\ \A i \in Fields(nfields) :
               match_arm(on_node_event_arm(nfields, i),
                         composed_poll(new_handler_right_fold(nfields), i,
                                       HandlerEvent("a")).event) = HandlerEvent("a")

\* C23: an event of the handler of field i, as the composed handler built by
\* new_handler returns it from poll, matches the arm of field i and no other
\* arm, and the generated on_connection_handler_event calls field i with the
\* event unwrapped, and no other field.
C23_HandlerEventReachesItsField ==
    swarm_call.op = "on_connection_handler_event" =>
        /\ field_calls = <<[field |-> swarm_call.from,
                            op |-> "on_connection_handler_event",
                            event |-> swarm_call.emitted]>>
        /\ \A k \in Fields(nfields) :
               match_arm(on_node_event_arm(nfields, k), swarm_call.event) # NoMatch
                   <=> k = swarm_call.from

C23_Witness ==
    /\ swarm_call.op = "on_connection_handler_event"
    /\ nfields = 3
    /\ swarm_call.from = 1
    /\ swarm_call.event = First(Second(HandlerEvent("b")))
    /\ field_calls[1].field = 1

\* C24: a ConnectionEstablished, AddressChange, NewListener, NewListenAddr,
\* ExpiredListenAddr, NewExternalAddr, ExpiredExternalAddr, ListenerError or
\* ListenerClosed given to the derived on_swarm_event is given to every field
\* once, in the order of declaration, as it is.
C24_FanOutToEveryFieldInOrder ==
    (swarm_call.op = "on_swarm_event" /\ swarm_call.event.kind \in FanOutKinds) =>
        /\ Len(field_calls) = nfields
        /\ \A k \in 1..nfields :
               /\ field_calls[k].field = k - 1
               /\ field_calls[k].op = "on_swarm_event"
               /\ field_calls[k].event = swarm_call.event

C24_Witness ==
    /\ swarm_call.op = "on_swarm_event"
    /\ swarm_call.event.kind = "ListenerClosed"
    /\ nfields = 3
    /\ Len(field_calls) = 3
    /\ field_calls[3].field = 2

\* C25: a ConnectionClosed, DialFailure or ListenFailure notifies every field
\* once, from the last to the first, each with the handler at its own position
\* of the handler handed back, and the rest of the event as it is.
C25_EachFieldGetsItsOwnHandler ==
    (swarm_call.op = "on_swarm_event" /\ swarm_call.event.kind \in HandlerKinds) =>
        /\ Len(field_calls) = nfields
        /\ \A k \in 1..nfields :
               LET got == field_calls[k].event IN
               /\ field_calls[k].field = nfields - k
               /\ got.kind = swarm_call.event.kind
               /\ got.payload = swarm_call.event.payload
               /\ got.handler.kind = "handler"
               /\ got.handler.field = nfields - k
               /\ got.handler.provided =>
                      swarm_call.event.handler =
                          provided_handler_and_new_handlers(nfields, nfields - k)

C25_Witness ==
    /\ swarm_call.op = "on_swarm_event"
    /\ swarm_call.event.kind = "DialFailure"
    /\ nfields = 3
    /\ swarm_call.event.handler = provided_handler_and_new_handlers(3, 1)
    /\ field_calls[2].event.handler = ProvidedHandler(1)
    /\ field_calls[3].event.handler = FieldHandler(0)

\* C26: one call of poll polls proto1, and proto2 only if proto1 returned
\* Pending; it returns proto1's event whenever proto1 is ready, else what proto2
\* returned, and so Pending exactly when both returned Pending.
C26_PollTriesProto1First ==
    call.op = "poll" =>
        /\ polled1 # NotPolled
        /\ polled1.kind # "Pending" =>
            /\ polled2 = NotPolled
            /\ notified = <<1>>
            /\ ret.kind = polled1.kind
            /\ ret.kind = "Custom" => ret.event = First(polled1.event)
            /\ ret.kind = "Close" => ret.error = EitherA(polled1.error)
            /\ ret.kind = "OutboundSubstreamRequest" =>
                    ret.protocol.info = First(polled1.protocol.info)
        /\ polled1.kind = "Pending" =>
            /\ polled2 # NotPolled
            /\ notified = <<1, 2>>
            /\ ret.kind = polled2.kind
        /\ ret.kind = "Pending" <=>
                (polled1.kind = "Pending" /\ polled2.kind = "Pending")

C26_Witness ==
    /\ call.op = "poll"
    /\ polled1.kind = "Close"
    /\ polled2 = NotPolled
    /\ ret = Close(EitherA(polled1.error))

\* C28: on_behaviour_event hands an event tagged First to proto1 alone and one
\* tagged Second to proto2 alone, unwrapped; the other inner handler is not
\* called.
C28_BehaviourEventGoesToTaggedSide ==
    call.op = "on_behaviour_event" =>
        /\ call.event.tag = "First" =>
            /\ proto1.inbox = <<BehaviourEvent(call.event.val)>>
            /\ proto2.inbox = <<>>
            /\ notified = <<1>>
        /\ call.event.tag = "Second" =>
            /\ proto2.inbox = <<BehaviourEvent(call.event.val)>>
            /\ proto1.inbox = <<>>
            /\ notified = <<2>>
        /\ ~panicked

C28_Witness ==
    /\ call.op = "on_behaviour_event"
    /\ call.event = Second("b")
    /\ proto2.inbox = <<BehaviourEvent("b")>>
    /\ proto1.inbox = <<>>

\* a ListenUpgradeError that is not an error of the negotiated upgrade
PreNegotiation(ev) == ev.kind = "ListenUpgradeError" /\ ev.error.err # "Apply"

\* C29: for any ConnectionEvent each inner handler gets at most one event, of
\* the kind of the composed event; both get one exactly for an AddressChange and
\* a pre-negotiation ListenUpgradeError, and then proto1 is called before proto2.
C29_AtMostOneEventProto1First ==
    call.op = "on_connection_event" =>
        /\ Len(proto1.inbox) <= 1
        /\ Len(proto2.inbox) <= 1
        /\ \A n \in 1..Len(proto1.inbox) : proto1.inbox[n].kind = call.event.kind
        /\ \A n \in 1..Len(proto2.inbox) : proto2.inbox[n].kind = call.event.kind
        /\ (proto1.inbox # <<>> /\ proto2.inbox # <<>>)
                <=> (call.event.kind = "AddressChange" \/ PreNegotiation(call.event))
        /\ (proto1.inbox # <<>> /\ proto2.inbox # <<>>) => notified = <<1, 2>>

C29_Witness ==
    /\ Got("ListenUpgradeError")
    /\ call.event.error = Timeout
    /\ Len(proto1.inbox) = 1
    /\ Len(proto2.inbox) = 1
    /\ notified = <<1, 2>>

\* C30: a FullyNegotiatedOutbound whose output and info carry different tags
\* makes the composed handler panic, and no inner handler is called.
C30_MismatchedOutboundPanics ==
    (Got("FullyNegotiatedOutbound") /\ call.event.protocol.tag # call.event.info.tag) =>
        /\ panicked
        /\ proto1.inbox = <<>>
        /\ proto2.inbox = <<>>
        /\ notified = <<>>

C30_Witness ==
    /\ Got("FullyNegotiatedOutbound")
    /\ call.event.protocol.tag = "Second"
    /\ call.event.info.tag = "First"
    /\ panicked

\* an event left the queue of an inner handler in this step
Popped1 == Len(queue1') < Len(queue1)
Popped2 == Len(queue2') < Len(queue2)

\* C27, order: an event leaves an inner handler only as the oldest it has ready
\* and in a poll that returns it, wrapped for its side; and a poll returns an
\* event only by taking it from an inner handler.
C27_InOrderOnce ==
    [][/\ Popped1 => /\ queue1' = Tail(queue1)
                     /\ queue2' = queue2
                     /\ ret' = poll_proto1(Head(queue1))
       /\ Popped2 => /\ queue2' = Tail(queue2)
                     /\ queue1' = queue1
                     /\ ret' = poll_proto2(Head(queue2))
       /\ (call'.op = "poll" /\ ret'.kind # "Pending" /\ <<queue1, queue2>>' = <<queue1, queue2>>)
              => UNCHANGED <<polled1, polled2, ret>>]_vars

\* C27, progress: if proto1 returns Pending again and again, proto2 does not
\* keep an event ready for ever: as long as it has events ready again and
\* again, polls take events from it again and again (the oldest first, by
\* the order above, so each event it has ready is returned).
C27_Proto2NotStarved ==
    (/\ []<>(call.op = "poll" /\ polled1.kind = "Pending")
     /\ []<>(queue2 # <<>>))
        => []<><<Popped2>>_vars

\* the same without the condition on proto1
C27_Proto2NeverStarved == ([]<>(queue2 # <<>>)) => []<><<Popped2>>_vars

\* C27: under repeated polling an event proto2 has ready is eventually
\* returned provided proto1 returns Pending infinitely often, and the events of
\* an inner handler are returned in order, none dropped, none twice.
C27_FairnessAndOrder == C27_InOrderOnce /\ C27_Proto2NotStarved

C27_Witness ==
    /\ call.op = "poll"
    /\ polled1.kind = "Pending"
    /\ ret = Custom(Second("b"))
    /\ queue1 # <<>>
    /\ queue2 # <<>>

\* a ListenUpgradeError with Select(ProtocolError(..))
GotProtocolError ==
    /\ Got("ListenUpgradeError")
    /\ call.event.error.err = "Select"
    /\ call.event.error.neg.neg = "ProtocolError"

\* C31: for Select(ProtocolError(IoError(e))) proto2 gets e itself and proto1 an
\* io::Error of the kind of e and nothing more of it; for InvalidMessage,
\* InvalidProtocol and TooManyProtocols both get the variant received.
C31_IoErrorKindReachesBoth ==
    GotProtocolError =>
        LET pe == call.event.error.neg.perr
            e1 == proto1.inbox[1].error
            e2 == proto2.inbox[1].error
        IN
        /\ Len(proto1.inbox) = 1
        /\ Len(proto2.inbox) = 1
        /\ e1.err = "Select" /\ e1.neg.neg = "ProtocolError" /\ e1.neg.perr.pe = pe.pe
        /\ e2.err = "Select" /\ e2.neg.neg = "ProtocolError" /\ e2.neg.perr.pe = pe.pe
        /\ pe.pe = "IoError" =>
            /\ e2.neg.perr.io = pe.io
            /\ e1.neg.perr.io.kind = pe.io.kind
            /\ e1.neg.perr.io.detail = "none"
        /\ pe.pe # "IoError" => e1 = call.event.error /\ e2 = call.event.error

C31_Witness ==
    /\ GotProtocolError
    /\ call.event.error.neg.perr = PeIoError([kind |-> "ConnectionReset", detail |-> "detail"])
    /\ proto1.inbox[1].error.neg.perr.io = [kind |-> "ConnectionReset", detail |-> "none"]
    /\ proto2.inbox[1].error.neg.perr.io = [kind |-> "ConnectionReset", detail |-> "detail"]

\* C32: the timeout of the composed listen_protocol is the larger of the two
\* timeouts of the inner listen_protocols.
C32_ListenTimeoutIsMaximum ==
    call.op = "listen_protocol" =>
        /\ ret.timeout >= call.lp1.timeout
        /\ ret.timeout >= call.lp2.timeout
        /\ ret.timeout \in {call.lp1.timeout, call.lp2.timeout}

C32_Witness ==
    /\ call.op = "listen_protocol"
    /\ call.lp1.timeout < call.lp2.timeout
    /\ ret.timeout = call.lp2.timeout

\* the last poll a call of the generated poll made on a field
LastPoll == field_calls[Len(field_calls)]

\* the generated poll returned an action of the kind k that a field returned
Returned(k) ==
    /\ swarm_call.op = "poll"
    /\ LastPoll.returned.kind = "Ready"
    /\ LastPoll.returned.action.kind = k

\* C33: the generated poll polls the fields in the order of declaration, each at
\* most once, stops at the first field that is Ready and returns an action of
\* that field, and returns Pending exactly when every field returned Pending.
C33_PollsFieldsInOrderUntilReady ==
    swarm_call.op = "poll" =>
        /\ Len(field_calls) \in 1..nfields
        /\ \A k \in 1..Len(field_calls) :
               /\ field_calls[k].op = "poll"
               /\ field_calls[k].field = k - 1
               /\ k < Len(field_calls) => field_calls[k].returned = Pending
        /\ LastPoll.returned.kind = "Ready" =>
               /\ swarm_ret.kind = "Ready"
               /\ swarm_ret.action.kind = LastPoll.returned.action.kind
        /\ LastPoll.returned = Pending => Len(field_calls) = nfields
        /\ swarm_ret = Pending <=>
               /\ Len(field_calls) = nfields
               /\ \A k \in 1..nfields : field_calls[k].returned = Pending

C33_Witness ==
    /\ swarm_call.op = "poll"
    /\ nfields = 3
    /\ Len(field_calls) = 2
    /\ field_calls[1].returned = Pending
    /\ field_calls[2].returned.kind = "Ready"
    /\ swarm_ret.kind = "Ready"

\* the nesting of a composed handler, and its inner handlers from left to right
RECURSIVE Shape(_)
Shape(h) ==
    IF h.kind = "select"
    THEN [kind |-> "select", proto1 |-> Shape(h.proto1), proto2 |-> Shape(h.proto2)]
    ELSE [kind |-> "handler"]
RECURSIVE Leaves(_)
Leaves(h) ==
    IF h.kind = "select" THEN Leaves(h.proto1) \o Leaves(h.proto2) ELSE <<h>>

\* C34: a Dial of field i becomes a Dial with the same opts whose handler is
\* nested as the handler of new_handler is, with the handler field i provided
\* at position i and the handler of new_handler of field j at every other
\* position j.
C34_DialComposesProvidedHandler ==
    Returned("Dial") =>
        LET dial == LastPoll.returned.action IN
        /\ swarm_ret.kind = "Ready"
        /\ swarm_ret.action.kind = "Dial"
        /\ swarm_ret.action.opts = dial.opts
        /\ Shape(swarm_ret.action.handler) = Shape(new_handler(nfields))
        /\ Leaves(swarm_ret.action.handler) =
               [k \in 1..nfields |-> IF k - 1 = LastPoll.field
                                     THEN dial.handler
                                     ELSE FieldHandler(k - 1)]

C34_Witness ==
    /\ Returned("Dial")
    /\ nfields = 3
    /\ LastPoll.field = 1
    /\ swarm_ret.action.opts = "dial p2"
    /\ swarm_ret.action.handler =
           Select(Select(FieldHandler(0), ProvidedHandler(1)), FieldHandler(2))

\* C35: the event of a NotifyHandler of field i is wrapped so that
\* on_behaviour_event of the handler new_handler composes hands it, as the field
\* produced it, to the handler of field i and to no other; peer_id and handler
\* are those of the field's action.
C35_NotifyHandlerReachesItsHandler ==
    Returned("NotifyHandler") =>
        LET notify == LastPoll.returned.action IN
        /\ swarm_ret.kind = "Ready"
        /\ swarm_ret.action.kind = "NotifyHandler"
        /\ swarm_ret.action.peer_id = notify.peer_id
        /\ swarm_ret.action.handler = notify.handler
        /\ composed_on_behaviour_event(new_handler(nfields), swarm_ret.action.event)
               = <<[field |-> LastPoll.field, op |-> "on_behaviour_event",
                    event |-> notify.event]>>

C35_Witness ==
    /\ Returned("NotifyHandler")
    /\ nfields = 3
    /\ LastPoll.field = 1
    /\ swarm_ret.action.event = First(Second("b"))
    /\ swarm_ret.action.peer_id = "p2"
    /\ swarm_ret.action.handler = "One(c1)"

\* the names of the variants of the generated OutEvent, by position
VariantNames ==
    << <<"P", "i", "n", "g">>,
       <<"K", "a", "d", "D", "h", "t">>,
       <<"R", "e", "l", "a", "y">>,
       <<"A", "u", "t", "o", "N", "a", "t">> >>

\* what a GenerateEvent of field j with the event e becomes
Composed(j, e) ==
    into_out_event(user_provided_out_event, j, field_tys[j + 1], e)

\* a ReportObservedAddr or CloseConnection of a field is returned as it is
PassedThrough ==
    (Returned("ReportObservedAddr") \/ Returned("CloseConnection")) =>
        swarm_ret = LastPoll.returned

\* C36 as stated: ReportObservedAddr and CloseConnection are returned as they
\* are, and the event of a GenerateEvent of field i becomes an event of the
\* composed OutEvent that no other field's event becomes, with or without the
\* attribute out_event.
C36_Original_IdentifiesField ==
    /\ PassedThrough
    /\ Returned("GenerateEvent") =>
        /\ swarm_ret.kind = "Ready"
        /\ swarm_ret.action.kind = "GenerateEvent"
        /\ \A j \in Fields(nfields), e \in Payloads :
               Composed(j, e) = swarm_ret.action.event => j = LastPoll.field

\* C36: ReportObservedAddr and CloseConnection are returned as they are. The
\* event of a GenerateEvent of field i becomes, without the attribute out_event,
\* the variant of the generated enum named after field i in upper camel case,
\* which no other field's event becomes; with the attribute it becomes what From
\* makes of it, which tells the type of the field and not the field.
C36_ComposedOutEvent ==
    /\ PassedThrough
    /\ Returned("GenerateEvent") =>
        LET event == LastPoll.returned.action.event
            out == swarm_ret.action.event
        IN
        /\ swarm_ret.kind = "Ready"
        /\ swarm_ret.action.kind = "GenerateEvent"
        /\ ~user_provided_out_event =>
            /\ out = [variant |-> VariantNames[LastPoll.field + 1], val |-> event]
            /\ \A j \in Fields(nfields), e \in Payloads :
                   Composed(j, e) = out => j = LastPoll.field
        /\ user_provided_out_event =>
            /\ out = From(field_tys[LastPoll.field + 1], event)
            /\ \A j \in Fields(nfields) :
                   Composed(j, event) = out
                       <=> field_tys[j + 1] = field_tys[LastPoll.field + 1]

C36_Witness ==
    /\ Returned("GenerateEvent")
    /\ ~user_provided_out_event
    /\ LastPoll.field = 1
    /\ swarm_ret.action.event =
           [variant |-> <<"K", "a", "d", "D", "h", "t">>, val |-> "a"]

====
